---- MODULE Spec2Model ----
(***************************************************************************)
(* NanoScale agent (crates/agent): join-token store, cluster signature     *)
(* middleware, privileged command gate, worker deployment pipeline and     *)
(* teardown, orchestrator create-project.                                  *)
(*                                                                         *)
(* Strings are TLA+ strings; prefix, suffix and substring tests are done   *)
(* character-wise with Len and SubSeq, as str::starts_with, ends_with and  *)
(* contains do.                                                            *)
(***************************************************************************)
EXTENDS Integers, Sequences, FiniteSets, TLC

VARIABLES
    \* cluster/token_store.rs: TokenStore
    tokens,        \* HashMap<String, Instant>: token value -> expiration
    now,           \* the monotonic clock read by Instant::now(), in seconds
    generated,     \* history: token value -> instant of its generation
    consumeTrue,   \* history: token value -> instants at which consume returned true
    consumeCount,  \* history: token value -> number of consume calls that returned true
    lastConsume,   \* history: the last consume_valid_token call and its result
    pending,       \* the token-store calls in progress, by caller
    \* cluster/signature.rs: verify_cluster_signature and what it reads
    sigNow,        \* SystemTime::now() in seconds since the epoch
    servers,       \* servers table: server id -> secret_key
    sigLast,       \* the request being answered and what the middleware did with it
    build,         \* the profile the agent was compiled with
    \* the worker host and worker/handlers.rs
    wfs,           \* files and directories: path -> File
    wusers,        \* system users
    wenabled,      \* enabled units
    wactive,       \* active (started) units
    monitored,     \* WorkerState.monitored_projects: Vec<MonitoredProject>
    wLast,         \* the worker response being sent and the run behind it
    wPrev,         \* the id whose teardown the worker answered last with success, or ""
    \* system/privilege_wrapper.rs
    gateLast,      \* the PrivilegeWrapper::run call being answered
    \* orchestrator/projects.rs: create_project and what it reads
    projects,      \* projects table: the rows, as [id, port, domain]
    creating,      \* the create_project requests in flight, by connection
    base_domain,   \* OrchestratorState.base_domain
    portsBound,    \* the loopback ports other processes hold on the worker host
    managing,      \* the delete-project or redeploy request of the orchestrator
    monitored_projects, \* OrchestratorState.monitored_projects
    \* deployment/inactivity_monitor.rs
    traffic_state, \* InactivityMonitor.traffic_state: service name -> TrafficState
    uptime,        \* the whole seconds of /proc/uptime
    svc,           \* the monitored service: ActiveState active, the socket's NConnections
    observed,      \* what the ticks have seen of the service so far
    monLast,       \* the last tick of the monitor
    \* orchestrator/cluster.rs
    joinLast,      \* the last join_cluster request and its answer
    joinRows,      \* the ids of the server rows that join_cluster inserted
    pureLast       \* the last call of a function without side effects and its result

tokenVars == <<tokens, now, generated, consumeTrue, consumeCount, lastConsume, pending>>

sigVars == <<sigNow, servers, sigLast, build>>

workerVars == <<wfs, wusers, wenabled, wactive, monitored, wLast, wPrev>>

gateVars == <<gateLast>>

orchVars == <<projects, creating, base_domain, portsBound, managing, monitored_projects>>

monitorVars == <<traffic_state, uptime, svc, observed, monLast>>

joinVars == <<joinLast, joinRows>>

pureVars == <<pureLast>>

vars == <<tokenVars, sigVars, workerVars, gateVars, orchVars, monitorVars, joinVars,
          pureVars>>

\* What the operations of each part leave alone.
tokenFrame == <<sigVars, workerVars, gateVars, orchVars, monitorVars, joinVars, pureVars>>

sigFrame == <<tokenVars, workerVars, gateVars, orchVars, monitorVars, joinVars, pureVars>>

workerFrame == <<tokenVars, sigVars, gateVars, orchVars, monitorVars, joinVars, pureVars>>

gateFrame == <<tokenVars, sigVars, workerVars, orchVars, monitorVars, joinVars, pureVars>>

orchFrame == <<tokenVars, sigVars, gateVars, monitorVars, joinVars, pureVars>>

monitorFrame == <<tokenVars, sigVars, workerVars, gateVars, orchVars, joinVars, pureVars>>

joinFrame == <<workerVars, gateVars, orchVars, monitorVars, pureVars>>

pureFrame == <<tokenVars, sigVars, workerVars, gateVars, orchVars, monitorVars, joinVars>>

----------------------------------------------------------------------------
(* str helpers *)

StartsWith(s, p) == Len(p) <= Len(s) /\ SubSeq(s, 1, Len(p)) = p

EndsWith(s, p) == Len(p) <= Len(s) /\ SubSeq(s, Len(s) - Len(p) + 1, Len(s)) = p

Contains(s, p) == \E i \in 1..(Len(s) - Len(p) + 1) : SubSeq(s, i, i + Len(p) - 1) = p

----------------------------------------------------------------------------
(* i64 arithmetic and decimal text *)

\* i64 is modelled IntWidth bits wide; the epoch clock is scaled with it.
IntWidth == 12

RECURSIVE Pow2(_)
Pow2(n) == IF n = 0 THEN 1 ELSE 2 * Pow2(n - 1)

I64_MAX == Pow2(IntWidth - 1) - 1

I64_MIN == 0 - Pow2(IntWidth - 1)

InI64(n) == I64_MIN <= n /\ n <= I64_MAX

\* Two's-complement wrap-around of n into the i64 range.
WrapI64(n) == ((n - I64_MIN) % Pow2(IntWidth)) + I64_MIN

DigitChars == "0123456789"

Char(s, i) == SubSeq(s, i, i)

IsDigit(c) == \E d \in 0..9 : Char(DigitChars, d + 1) = c

DigitValue(c) == CHOOSE d \in 0..9 : Char(DigitChars, d + 1) = c

\* Decimal digits of s from position i on, accumulated onto acc; -1 when a
\* character is no digit or the magnitude leaves the range of any i64.
RECURSIVE ParseDigits(_, _, _)
ParseDigits(s, i, acc) ==
    IF i > Len(s) THEN acc
    ELSE IF ~IsDigit(Char(s, i)) THEN -1
    ELSE LET next == 10 * acc + DigitValue(Char(s, i))
         IN  IF next > I64_MAX + 1 THEN -1 ELSE ParseDigits(s, i + 1, next)

\* str::parse::<i64>: optional sign, at least one digit, value within the range.
ParseI64(s) ==
    LET signed == Len(s) >= 1 /\ Char(s, 1) \in {"-", "+"}
        negative == Len(s) >= 1 /\ Char(s, 1) = "-"
        first == IF signed THEN 2 ELSE 1
        magnitude == IF first > Len(s) THEN -1 ELSE ParseDigits(s, first, 0)
        value == IF negative THEN 0 - magnitude ELSE magnitude
    IN  IF magnitude = -1 \/ ~InI64(value)
          THEN [ok |-> FALSE, value |-> 0]
          ELSE [ok |-> TRUE, value |-> value]

RECURSIVE NatToString(_)
NatToString(n) ==
    IF n < 10 THEN Char(DigitChars, n + 1)
    ELSE NatToString(n \div 10) \o Char(DigitChars, (n % 10) + 1)

\* i64::to_string
I64ToString(n) == IF n < 0 THEN "-" \o NatToString(0 - n) ELSE NatToString(n)

----------------------------------------------------------------------------
(* cluster/token_store.rs *)

TOKEN_TTL_SECONDS == 600

\* The values thread_rng() can draw (32 alphanumeric characters each).
TokenValues == {"tokA", "tokB"}

\* The clock stops advancing at MaxNow.
MaxNow == 1205

\* The amounts by which the clock advances between two calls.
ClockSteps == {299, 300, 301}

NoCall == [token |-> "", result |-> FALSE, at |-> 0, called |-> FALSE]

\* `*expiration > now` (lines 41 and 57), with >= in place of >.
TokenLiveInclusive(expiration, t) == expiration >= t

\* `*expiration > now` (lines 41 and 57).
TokenLive(expiration, t) == expiration > t

\* prune_expired that also drops the tokens with less than half of their
\* lifetime left.
PruneExpiredEager(map, t) ==
    [v \in {w \in DOMAIN map : TokenLive(map[w], t + 300)} |-> map[v]]

\* prune_expired: retain(|_, expiration| *expiration > now).
PruneExpired(map, t) ==
    [v \in {w \in DOMAIN map : TokenLive(map[w], t)} |-> map[v]]

MapRemove(map, v) == [w \in (DOMAIN map) \ {v} |-> map[w]]

MapInsert(map, v, x) == [w \in (DOMAIN map) \cup {v} |-> IF w = v THEN x ELSE map[w]]

\* generate_token: prune, draw a value, insert it with expiration now + TTL.
\* The value drawn is one no earlier call drew (62^32 values).
GenerateToken(v) ==
    /\ v \notin DOMAIN generated
    /\ tokens' = MapInsert(PruneExpired(tokens, now), v, now + TOKEN_TTL_SECONDS)
    /\ generated' = MapInsert(generated, v, now)
    /\ UNCHANGED <<now, consumeTrue, consumeCount, lastConsume, pending>>
    /\ UNCHANGED tokenFrame

\* What consume_valid_token(token) returns on `map` at instant t, after the prune.
ConsumeResult(map, v, t) ==
    LET pruned == PruneExpired(map, t)
    IN  v \in DOMAIN pruned /\ TokenLive(pruned[v], t)

\* consume_valid_token: prune, then under the write lock look the token up,
\* remove it whether live or expired, return true only when it was live.
ConsumeValidToken(v) ==
    LET result == ConsumeResult(tokens, v, now)
    IN  /\ tokens' = MapRemove(PruneExpired(tokens, now), v)
        /\ lastConsume' = [token |-> v, result |-> result, at |-> now, called |-> TRUE]
        /\ consumeTrue' = IF result
                            THEN [consumeTrue EXCEPT ![v] = @ \cup {now}]
                            ELSE consumeTrue
        /\ consumeCount' = IF result
                             THEN [consumeCount EXCEPT ![v] = @ + 1]
                             ELSE consumeCount
        /\ UNCHANGED <<now, generated, pending>>
        /\ UNCHANGED tokenFrame

\* Time passes between two calls.
AdvanceClock(d) ==
    /\ now + d <= MaxNow
    /\ now' = now + d
    /\ UNCHANGED <<tokens, generated, consumeTrue, consumeCount, lastConsume, pending>>
    /\ UNCHANGED tokenFrame

\* The tasks that call the token store at the same time, and the calls the
\* model lets them make in all.
Callers == {1, 2, 3}

MaxCalls == 4

IdleCall == [pc |-> "idle", op |-> "", token |-> "", result |-> FALSE, expiration |-> 0]

NoPending == [started |-> 0, of |-> [p \in Callers |-> IdleCall]]

\* The second write-lock section of consume_valid_token that returns true
\* without removing the token.
ConsumeLockedKeeps(map, v, t) ==
    IF v \in DOMAIN map
      THEN [result |-> TokenLive(map[v], t),
            map |-> IF TokenLive(map[v], t) THEN map ELSE MapRemove(map, v)]
      ELSE [result |-> FALSE, map |-> map]

\* The second write-lock section of consume_valid_token (lines 39-49): the
\* lookup, the comparison with Instant::now() and the removal.
ConsumeLocked(map, v, t) ==
    IF v \in DOMAIN map
      THEN [result |-> TokenLive(map[v], t), map |-> MapRemove(map, v)]
      ELSE [result |-> FALSE, map |-> map]

SetCall(p, call) == pending' = [pending EXCEPT !.of[p] = call]

\* A task calls generate_token or consume_valid_token and waits for the write
\* lock of prune_expired. A generate_token call draws a value no other call drew.
\* The tasks are alike: the call is given to the first free one.
CallBegin(p, op, v) ==
    /\ pending.of[p].pc = "idle"
    /\ \A q \in Callers : q < p => pending.of[q].pc # "idle"
    /\ pending.started < MaxCalls
    /\ op = "generate" =>
          /\ v \notin DOMAIN generated
          /\ \A q \in Callers :
                pending.of[q].pc = "idle" \/ pending.of[q].op # "generate"
                  \/ pending.of[q].token # v
    /\ pending' = [started |-> pending.started + 1,
                   of |-> [pending.of EXCEPT ![p] =
                             [pc |-> "prune", op |-> op, token |-> v, result |-> FALSE,
                              expiration |-> 0]]]
    /\ UNCHANGED <<tokens, now, generated, consumeTrue, consumeCount, lastConsume>>
    /\ UNCHANGED tokenFrame

\* prune_expired under its write lock (lines 52-58); generate_token then
\* computes the expiration (line 30). The task waits for the next write lock.
CallPrune(p) ==
    /\ pending.of[p].pc = "prune"
    /\ tokens' = PruneExpired(tokens, now)
    /\ SetCall(p, [pending.of[p] EXCEPT !.pc = "locked",
                                         !.expiration = now + TOKEN_TTL_SECONDS])
    /\ UNCHANGED <<now, generated, consumeTrue, consumeCount, lastConsume>>
    /\ UNCHANGED tokenFrame

\* The second write-lock section: the insert of generate_token (line 31) or the
\* lookup and removal of consume_valid_token (lines 39-49).
CallLocked(p) ==
    /\ pending.of[p].pc = "locked"
    /\ IF pending.of[p].op = "generate"
         THEN /\ tokens' = MapInsert(tokens, pending.of[p].token, pending.of[p].expiration)
              /\ generated' = MapInsert(generated, pending.of[p].token,
                                        pending.of[p].expiration - TOKEN_TTL_SECONDS)
              /\ SetCall(p, [pending.of[p] EXCEPT !.pc = "returned"])
              /\ UNCHANGED <<consumeTrue, consumeCount>>
         ELSE \E out \in {ConsumeLocked(tokens, pending.of[p].token, now)} :
                /\ tokens' = out.map
                /\ SetCall(p, [pending.of[p] EXCEPT !.pc = "returned",
                                                     !.result = out.result])
                /\ consumeTrue' = IF out.result
                                    THEN [consumeTrue EXCEPT ![pending.of[p].token] =
                                             @ \cup {now}]
                                    ELSE consumeTrue
                /\ consumeCount' = IF out.result
                                     THEN [consumeCount EXCEPT ![pending.of[p].token] = @ + 1]
                                     ELSE consumeCount
                /\ UNCHANGED generated
    /\ UNCHANGED <<now, lastConsume>>
    /\ UNCHANGED tokenFrame

\* The caller has the result; the task is free for another call.
CallReturn(p) ==
    /\ pending.of[p].pc = "returned"
    /\ SetCall(p, IdleCall)
    /\ UNCHANGED <<tokens, now, generated, consumeTrue, consumeCount, lastConsume>>
    /\ UNCHANGED tokenFrame

----------------------------------------------------------------------------
(* orchestrator/cluster.rs: join_cluster *)

\* The join_cluster requests the model lets in.
MaxJoins == 2

NoJoin ==
    [n |-> 0, token |-> "", secret_key |-> "", dbOk |-> TRUE, status |-> "",
     server_id |-> ""]

NoPure == [fn |-> ""]

JoinIdle ==
    /\ joinLast = NoJoin
    /\ joinRows = {}
    /\ pureLast = NoPure

\* Uuid::new_v4 of the n-th request: an id no server row has.
NewServerId(n) == "srv" \o NatToString(n)

\* join_cluster that inserts the server row without consuming the token.
JoinClusterUnchecked(v, secret_key, dbOk) ==
    /\ joinLast.n < MaxJoins
    /\ dbOk
    /\ servers' = MapInsert(servers, NewServerId(joinLast.n + 1), secret_key)
    /\ joinRows' = joinRows \cup {NewServerId(joinLast.n + 1)}
    /\ joinLast' = [n |-> joinLast.n + 1, token |-> v, secret_key |-> secret_key,
                    dbOk |-> dbOk,
                    status |-> "ok", server_id |-> NewServerId(joinLast.n + 1)]
    /\ UNCHANGED <<tokenVars, sigNow, sigLast, build>>
    /\ UNCHANGED joinFrame

\* join_cluster (cluster.rs 27-51): consume_valid_token, then insert_server
\* under a new id. dbOk is whether the INSERT succeeds.
JoinCluster(v, secret_key, dbOk) ==
    /\ joinLast.n < MaxJoins
    /\ \E result \in {ConsumeResult(tokens, v, now)} :
         /\ tokens' = MapRemove(PruneExpired(tokens, now), v)
         /\ lastConsume' = [token |-> v, result |-> result, at |-> now, called |-> TRUE]
         /\ consumeTrue' = IF result /\ v \in DOMAIN consumeTrue
                             THEN [consumeTrue EXCEPT ![v] = @ \cup {now}]
                             ELSE consumeTrue
         /\ consumeCount' = IF result /\ v \in DOMAIN consumeCount
                              THEN [consumeCount EXCEPT ![v] = @ + 1]
                              ELSE consumeCount
         /\ servers' = IF result /\ dbOk
                         THEN MapInsert(servers, NewServerId(joinLast.n + 1), secret_key)
                         ELSE servers
         /\ joinRows' = IF result /\ dbOk
                          THEN joinRows \cup {NewServerId(joinLast.n + 1)}
                          ELSE joinRows
         /\ joinLast' = [n |-> joinLast.n + 1, token |-> v, secret_key |-> secret_key,
                    dbOk |-> dbOk,
                         status |-> IF ~result THEN "unauthorized"
                                    ELSE IF ~dbOk THEN "internal_error" ELSE "ok",
                         server_id |-> IF result /\ dbOk
                                         THEN NewServerId(joinLast.n + 1) ELSE ""]
    /\ UNCHANGED <<now, generated, pending, sigNow, sigLast, build>>
    /\ UNCHANGED joinFrame

----------------------------------------------------------------------------
(* cluster/signature.rs, orchestrator/worker_client.rs: sign_internal_payload *)

MAX_BODY_BYTES == 1048576

MAX_TIMESTAMP_AGE_SECONDS == 30

\* The epoch clock stops advancing at MaxSigNow.
MaxSigNow == 1040

\* The epoch second at which the orchestrator starts.
SigEpochStart == 1000

SIGNATURE_HEADER == "X-Cluster-Signature"

TIMESTAMP_HEADER == "X-Cluster-Timestamp"

SERVER_ID_HEADER == "X-Server-Id"

ClusterHeaders == {SIGNATURE_HEADER, TIMESTAMP_HEADER, SERVER_ID_HEADER}

\* A request body: `content` followed by `pad` further bytes.
Bodies ==
    { [content |-> "", pad |-> 0],
      [content |-> "a", pad |-> 0],
      [content |-> "a", pad |-> MAX_BODY_BYTES - 1],
      [content |-> "a", pad |-> MAX_BODY_BYTES] }

BodyLen(body) == Len(body.content) + body.pad

\* The bytes fed to the MAC: the body bytes, then the bytes of the timestamp text.
MacInput(body, timestamp) ==
    IF body.pad = 0
      THEN [head |-> body.content \o timestamp, pad |-> 0, tail |-> ""]
      ELSE [head |-> body.content, pad |-> body.pad, tail |-> timestamp]

\* HMAC-SHA256 as a collision-free function of key and message.
HmacSha256(secret, message) == [key |-> secret, msg |-> message]

\* hex::encode: lower-case digits.
HexEncode(bytes) == [hex |-> "lower", bytes |-> bytes]

\* The same bytes spelled with upper-case hex digits.
HexUpper(bytes) == [hex |-> "upper", bytes |-> bytes]

NoBytes == [key |-> "", msg |-> [head |-> "", pad |-> 0, tail |-> ""]]

\* A header value that is no hex text.
NotHex == [hex |-> "none", bytes |-> NoBytes]

\* hex::decode: accepts digits of either case.
HexDecode(text) ==
    IF text.hex \in {"lower", "upper"}
      THEN [ok |-> TRUE, bytes |-> text.bytes]
      ELSE [ok |-> FALSE, bytes |-> NoBytes]

\* sign_internal_payload (worker_client.rs)
SignInternalPayload(body, timestamp, secret) ==
    HexEncode(HmacSha256(secret, MacInput(body, timestamp)))

ServerIds == {"local", "srvA", "ghost"}

SecretKeys == {"keyL", "keyA"}

\* Overflow checks on (debug profile) or off (release profile).
Builds == {"debug", "release"}

\* `now_seconds - timestamp_seconds` on i64: the difference when it fits; when it
\* overflows, a panic with overflow checks on and the wrapped value with them off.
AgeSubtraction(nowSeconds, timestampSeconds, profile) ==
    LET diff == nowSeconds - timestampSeconds
    IN  IF InI64(diff) THEN [panic |-> FALSE, value |-> diff]
        ELSE IF profile = "debug" THEN [panic |-> TRUE, value |-> 0]
        ELSE [panic |-> FALSE, value |-> WrapI64(diff)]

\* validate_timestamp: "ok", "unauthorized" or "panic".
ValidateTimestamp(timestamp, nowSeconds, profile) ==
    LET parsed == ParseI64(timestamp)
        age == AgeSubtraction(nowSeconds, parsed.value, profile)
    IN  IF ~parsed.ok THEN "unauthorized"
        ELSE IF age.panic THEN "panic"
        ELSE IF age.value > MAX_TIMESTAMP_AGE_SECONDS THEN "unauthorized"
        ELSE "ok"

\* verify_cluster_signature: "next" when the request reaches the handler, else
\* the status returned (or "panic").
VerifyClusterSignature(req, nowSeconds, table, dbOk, profile) ==
    IF ~(ClusterHeaders \subseteq req.headers) THEN "unauthorized"
    ELSE LET stamp == ValidateTimestamp(req.timestamp, nowSeconds, profile)
             decoded == HexDecode(req.signature)
         IN  IF stamp # "ok" THEN stamp
             ELSE IF BodyLen(req.body) > MAX_BODY_BYTES THEN "bad_request"
             ELSE IF ~dbOk THEN "internal_error"
             ELSE IF req.serverId \notin DOMAIN table THEN "unauthorized"
             ELSE IF ~decoded.ok THEN "unauthorized"
             ELSE IF decoded.bytes #
                       HmacSha256(table[req.serverId], MacInput(req.body, req.timestamp))
               THEN "unauthorized"
             ELSE "next"

\* The timestamps a sender may put in X-Cluster-Timestamp at instant t.
TimestampValues(t) ==
    {I64_MIN, t - MAX_TIMESTAMP_AGE_SECONDS - 1, t - MAX_TIMESTAMP_AGE_SECONDS,
     t, t + 100, I64_MAX}

TimestampTexts(t) ==
    {I64ToString(x) : x \in TimestampValues(t)} \cup {"abc", "", "+" \o I64ToString(t)}

\* The values a sender may put in X-Cluster-Signature of a request with this body
\* and timestamp: the signature under either key, the signature under the
\* first key in upper case, text that is no hex, or the signature of another body.
SignatureTexts(body, timestamp) ==
    {SignInternalPayload(body, timestamp, k) : k \in SecretKeys}
      \cup {HexUpper(HmacSha256("keyL", MacInput(body, timestamp))), NotHex,
            SignInternalPayload([content |-> "b", pad |-> 0], timestamp, "keyL")}

\* The requests a sender may issue at instant t: with the three headers and any
\* combination of values, or with one header missing.
RequestsAt(t) ==
    LET full == {[headers |-> ClusterHeaders, serverId |-> id, body |-> b,
                  timestamp |-> I64ToString(t), signature |-> NotHex] :
                    id \in ServerIds, b \in Bodies}
        stamped == UNION {{[r EXCEPT !.timestamp = ts, !.signature = sg] :
                             sg \in SignatureTexts(r.body, ts)} :
                               r \in full, ts \in TimestampTexts(t)}
        signed == [headers |-> ClusterHeaders, serverId |-> "local",
                   body |-> [content |-> "a", pad |-> 0], timestamp |-> I64ToString(t),
                   signature |-> SignInternalPayload([content |-> "a", pad |-> 0],
                                                     I64ToString(t), "keyL")]
    IN  stamped \cup {signed} \cup {[signed EXCEPT !.headers = ClusterHeaders \ {h}] : h \in ClusterHeaders}

NoSigCall == [called |-> FALSE]

\* orchestrator.rs run: the local server is upserted before the router is built.
SigInit(profile) ==
    /\ sigNow = SigEpochStart
    /\ servers = [id \in {"local"} |-> "keyL"]
    /\ sigLast = NoSigCall
    /\ build = profile

SigIdle == SigInit("release")

\* A request arrives at a route behind the middleware (orchestrator.rs 192-198).
GuardedRequest(req, dbOk) ==
    /\ sigLast' = [called |-> TRUE, req |-> req, at |-> sigNow, dbOk |-> dbOk,
                   known |-> req.serverId \in DOMAIN servers,
                   secret |-> IF req.serverId \in DOMAIN servers
                                THEN servers[req.serverId] ELSE "",
                   outcome |-> VerifyClusterSignature(req, sigNow, servers, dbOk, build)]
    /\ UNCHANGED <<sigNow, servers, build>>
    /\ UNCHANGED sigFrame

\* join_cluster's insert_server: a worker registers its id and secret.
InsertServer(id, secret) ==
    /\ id \notin DOMAIN servers
    /\ servers' = MapInsert(servers, id, secret)
    /\ UNCHANGED <<sigNow, sigLast, build>>
    /\ UNCHANGED sigFrame

\* The response is sent; the middleware keeps nothing of the request.
SigRespond ==
    /\ sigLast.called
    /\ sigLast' = NoSigCall
    /\ UNCHANGED <<sigNow, servers, build>>
    /\ UNCHANGED sigFrame

SigTick ==
    /\ sigNow < MaxSigNow
    /\ sigNow' = sigNow + 20
    /\ UNCHANGED <<servers, sigLast, build>>
    /\ UNCHANGED sigFrame

----------------------------------------------------------------------------
(* system/privilege_wrapper.rs, system/privilege_wrapper/validators.rs,        *)
(* system/privilege_wrapper/certbot.rs                                         *)

SYSTEMCTL_BIN == "/usr/bin/systemctl"

SERVICE_BIN == "/usr/sbin/service"

USERADD_BIN == "/usr/sbin/useradd"

USERDEL_BIN == "/usr/sbin/userdel"

CERTBOT_BIN == "/usr/bin/certbot"

MV_BIN == "/usr/bin/mv"

RM_BIN == "/usr/bin/rm"

CHOWN_BIN == "/usr/bin/chown"

FALLOCATE_BIN == "/usr/bin/fallocate"

\* PrivilegeWrapper::new: allowed_binaries
AllowedBinaries ==
    {SYSTEMCTL_BIN, SERVICE_BIN, USERADD_BIN, USERDEL_BIN, CERTBOT_BIN, MV_BIN,
     RM_BIN, CHOWN_BIN, FALLOCATE_BIN}

AlnumChars == "abcdefghijklmnopqrstuvwxyzABCDEFGHIJKLMNOPQRSTUVWXYZ0123456789"

\* char::is_ascii_alphanumeric
IsAsciiAlphanumeric(c) == \E i \in 1..Len(AlnumChars) : Char(AlnumChars, i) = c

\* str::trim().is_empty(): every character is white space.
TrimIsEmpty(s) == \A i \in 1..Len(s) : Char(s, i) \in {" ", "\t", "\n", "\r"}

\* The index of the last occurrence of the character c in s, 0 when there is none.
LastIndexOf(s, c) ==
    LET at == {i \in 1..Len(s) : Char(s, i) = c}
    IN  IF at = {} THEN 0 ELSE CHOOSE i \in at : \A j \in at : j <= i

\* Path::file_name for an absolute path: the last component, trailing separators
\* dropped; "" when the path ends in "..".
RECURSIVE FileName(_)
FileName(path) ==
    IF Len(path) = 0 THEN ""
    ELSE IF Char(path, Len(path)) = "/" THEN FileName(SubSeq(path, 1, Len(path) - 1))
    ELSE LET name == SubSeq(path, LastIndexOf(path, "/") + 1, Len(path))
         IN  IF name = ".." THEN "" ELSE name

\* Path::extension: the text after the last '.' of the file name, when the file
\* name has a '.' that is not its first character; "" stands for None.
Extension(path) ==
    LET name == FileName(path)
        dot == LastIndexOf(name, ".")
    IN  IF dot <= 1 THEN "" ELSE SubSeq(name, dot + 1, Len(name))

\* The spellings eq_ignore_ascii_case("conf") accepts.
ConfSpellings ==
    {c \o o \o n \o f : c \in {"c", "C"}, o \in {"o", "O"}, n \in {"n", "N"}, f \in {"f", "F"}}

HasConfExtension(path) == Extension(path) \in ConfSpellings

IsNanoscaleUnit(name) ==
    StartsWith(name, "nanoscale-") /\ (EndsWith(name, ".service") \/ EndsWith(name, ".socket"))

ValidateSystemctlArgs(args) ==
    \/ args = <<"daemon-reload">>
    \/ Len(args) = 3 /\ args[1] \in {"enable", "disable"} /\ args[2] = "--now"
          /\ IsNanoscaleUnit(args[3])
    \/ args = <<"status", "nanoscale-agent">>
    \/ Len(args) = 4 /\ args[1] = "show" /\ StartsWith(args[2], "--property=")
          /\ args[3] = "--value" /\ IsNanoscaleUnit(args[4])
    \/ Len(args) = 3 /\ args[1] = "show" /\ StartsWith(args[2], "--property=")
          /\ IsNanoscaleUnit(args[3])
    \/ Len(args) = 2 /\ args[1] \in {"start", "stop", "restart"}
          /\ StartsWith(args[2], "nanoscale-")

ValidateServiceArgs(args) == args = <<"nginx", "reload">>

ValidateUseraddArgs(args) ==
    Len(args) = 4 /\ args[1] = "-r" /\ args[2] = "-s" /\ args[3] = "/bin/false"
      /\ StartsWith(args[4], "nanoscale-")

ValidateUserdelArgs(args) == Len(args) = 1 /\ StartsWith(args[1], "nanoscale-")

ValidateMvArgs(args) ==
    /\ Len(args) = 2
    /\ LET source == args[1]
           destination == args[2]
       IN  /\ StartsWith(source, "/opt/nanoscale/tmp/nanoscale-")
           /\ \/ EndsWith(source, ".service")
              \/ EndsWith(source, ".socket")
              \/ HasConfExtension(source)
           /\ \/ /\ StartsWith(destination, "/etc/systemd/system/nanoscale-")
                 /\ (EndsWith(destination, ".service") \/ EndsWith(destination, ".socket"))
              \/ /\ StartsWith(destination, "/etc/nginx/sites-available/nanoscale-")
                 /\ HasConfExtension(destination)
              \/ /\ StartsWith(destination, "/etc/nginx/sites-enabled/nanoscale-")
                 /\ HasConfExtension(destination)

\* str::split_once(':'): the text before and after the first ':'.
SplitOnceColon(s) ==
    LET at == {i \in 1..Len(s) : Char(s, i) = ":"}
        first == CHOOSE i \in at : \A j \in at : i <= j
    IN  IF at = {} THEN [some |-> FALSE, left |-> "", right |-> ""]
        ELSE [some |-> TRUE, left |-> SubSeq(s, 1, first - 1),
              right |-> SubSeq(s, first + 1, Len(s))]

ValidateChownArgs(args) ==
    /\ Len(args) = 3
    /\ args[1] = "-R"
    /\ LET owner == SplitOnceColon(args[2])
       IN  owner.some /\ StartsWith(owner.left, "nanoscale-")
             /\ StartsWith(owner.right, "nanoscale-")
    /\ \/ StartsWith(args[3], "/opt/nanoscale/sites/nanoscale-")
       \/ StartsWith(args[3], "/opt/nanoscale/sites/")

RmFileTargetAllowed(target) ==
    \/ /\ StartsWith(target, "/etc/systemd/system/nanoscale-")
       /\ (EndsWith(target, ".service") \/ EndsWith(target, ".socket"))
    \/ /\ StartsWith(target, "/etc/systemd/system/multi-user.target.wants/nanoscale-")
       /\ EndsWith(target, ".service")
    \/ /\ StartsWith(target, "/etc/systemd/system/sockets.target.wants/nanoscale-")
       /\ EndsWith(target, ".socket")
    \/ /\ StartsWith(target, "/etc/nginx/sites-enabled/nanoscale-")
       /\ HasConfExtension(target)

RmDirectoryTargetAllowed(target) ==
    /\ StartsWith(target, "/opt/nanoscale/sites/") \/ StartsWith(target, "/opt/nanoscale/tmp/")
    /\ ~Contains(target, "..")

ValidateRmArgs(args) ==
    /\ Len(args) = 2
    /\ \/ args[1] = "-f" /\ RmFileTargetAllowed(args[2])
       \/ args[1] = "-rf" /\ RmDirectoryTargetAllowed(args[2])

ValidateFallocateArgs(args) == args = <<"-l", "2G", "/opt/nanoscale/tmp/nanoscale.swap">>

CertbotFlags == {"--webroot", "--non-interactive", "--agree-tos", "--keep-until-expiring"}

CertbotValued == {"-w", "-d", "--email"}

\* The argument loop of validate_certbot_certonly_webroot_args from index i on:
\* st.flags are the flags seen, st.value the last value of each valued option.
RECURSIVE CertbotScan(_, _, _)
CertbotScan(args, i, st) ==
    IF i > Len(args) THEN st
    ELSE IF args[i] = "certonly" THEN CertbotScan(args, i + 1, st)
    ELSE IF args[i] \in CertbotFlags
      THEN CertbotScan(args, i + 1, [st EXCEPT !.flags = @ \cup {args[i]}])
    ELSE IF args[i] \in CertbotValued
      THEN IF i + 1 > Len(args) THEN [st EXCEPT !.err = TRUE]
           ELSE CertbotScan(args, i + 2,
                            [st EXCEPT !.set = @ \cup {args[i]},
                                       !.value = [@ EXCEPT ![args[i]] = args[i + 1]]])
    ELSE [st EXCEPT !.err = TRUE]

DomainAllowed(domain) ==
    /\ ~TrimIsEmpty(domain)
    /\ Contains(domain, ".")
    /\ \A i \in 1..Len(domain) :
          IsAsciiAlphanumeric(Char(domain, i)) \/ Char(domain, i) \in {".", "-"}

EmailAllowed(email) ==
    ~TrimIsEmpty(email) /\ ~Contains(email, " ") /\ Contains(email, "@")

ValidateCertbotCertonlyWebrootArgs(args) ==
    LET st == CertbotScan(args, 1, [err |-> FALSE, flags |-> {}, set |-> {},
                                    value |-> [o \in CertbotValued |-> ""]])
    IN  /\ ~st.err
        /\ st.flags = CertbotFlags
        /\ "-w" \in st.set
        /\ st.value["-w"] = "/opt/nanoscale/acme"
        /\ "-d" \in st.set
        /\ DomainAllowed(st.value["-d"])
        /\ "--email" \in st.set
        /\ EmailAllowed(st.value["--email"])

ValidateCertbotArgs(args) ==
    \/ Len(args) >= 2 /\ args[1] = "--nginx"
    \/ Len(args) >= 1 /\ args[1] = "certonly" /\ ValidateCertbotCertonlyWebrootArgs(args)

ValidateCommandArgs(binary, args) ==
    CASE binary = SYSTEMCTL_BIN -> ValidateSystemctlArgs(args)
      [] binary = SERVICE_BIN -> ValidateServiceArgs(args)
      [] binary = USERADD_BIN -> ValidateUseraddArgs(args)
      [] binary = USERDEL_BIN -> ValidateUserdelArgs(args)
      [] binary = CERTBOT_BIN -> ValidateCertbotArgs(args)
      [] binary = MV_BIN -> ValidateMvArgs(args)
      [] binary = RM_BIN -> ValidateRmArgs(args)
      [] binary = CHOWN_BIN -> ValidateChownArgs(args)
      [] binary = FALLOCATE_BIN -> ValidateFallocateArgs(args)
      [] OTHER -> FALSE

\* PrivilegeWrapper::run with the allowlist and validator checks left out.
RunUnchecked(binary, args, exitOk) == [spawned |-> TRUE, ok |-> exitOk]

\* PrivilegeWrapper::run: `sudo -n binary args` is spawned only past the allowlist
\* and the validator; the call is Ok only when the process exits with success.
PrivilegeWrapperRun(binary, args, exitOk) ==
    IF binary \notin AllowedBinaries
      THEN [spawned |-> FALSE, ok |-> FALSE]
    ELSE IF ~ValidateCommandArgs(binary, args)
      THEN [spawned |-> FALSE, ok |-> FALSE]
    ELSE [spawned |-> TRUE, ok |-> exitOk]

NoGateCall == [called |-> FALSE]

GateIdle == gateLast = NoGateCall

\* A caller runs PrivilegeWrapper::run(binary, args); exitOk is whether the
\* command, if spawned, exits with success.
GateRun(binary, args, exitOk) ==
    /\ gateLast' = [called |-> TRUE, binary |-> binary, args |-> args, exitOk |-> exitOk,
                    result |-> PrivilegeWrapperRun(binary, args, exitOk)]
    /\ UNCHANGED gateFrame

\* The call returns.
GateReturn ==
    /\ gateLast.called
    /\ gateLast' = NoGateCall
    /\ UNCHANGED gateFrame

----------------------------------------------------------------------------
(* The worker host: files, users and units, and what an elevated command does *)

\* A file or directory: its kind and two numbers (ports, or 0).
SYSTEMD_TARGET_PATH == "/etc/systemd/system"

File(kind, a, b) == [kind |-> kind, a |-> a, b |-> b]

Dir == File("dir", 0, 0)

Exists(fs, path) == path \in DOMAIN fs

\* The paths at or below `path`.
Below(fs, path) == {q \in DOMAIN fs : q = path \/ StartsWith(q, path \o "/")}

RemoveAll(fs, path) == [q \in (DOMAIN fs) \ Below(fs, path) |-> fs[q]]

WriteFile(fs, path, file) == MapInsert(fs, path, file)

\* The wants link `systemctl enable` creates for a unit ([Install] WantedBy).
WantsLink(unit) ==
    IF EndsWith(unit, ".socket")
      THEN "/etc/systemd/system/sockets.target.wants/" \o unit
      ELSE "/etc/systemd/system/multi-user.target.wants/" \o unit

\* The host after `sudo -n binary args` exited with success.
CommandEffect(m, binary, args) ==
    CASE binary = MV_BIN ->
           [m EXCEPT !.fs = MapRemove(WriteFile(m.fs, args[2], m.fs[args[1]]), args[1])]
      [] binary = RM_BIN -> [m EXCEPT !.fs = RemoveAll(m.fs, args[2])]
      [] binary = USERADD_BIN -> [m EXCEPT !.users = @ \cup {args[4]}]
      [] binary = USERDEL_BIN -> [m EXCEPT !.users = @ \ {args[1]}]
      [] binary = FALLOCATE_BIN -> [m EXCEPT !.fs = WriteFile(m.fs, args[3], File("swap", 0, 0))]
      [] binary = SYSTEMCTL_BIN /\ args[1] = "enable" ->
           [m EXCEPT !.enabled = @ \cup {args[3]}, !.active = @ \cup {args[3]},
                     !.fs = WriteFile(m.fs, WantsLink(args[3]), File("link", 0, 0))]
      [] binary = SYSTEMCTL_BIN /\ args[1] = "disable" ->
           [m EXCEPT !.enabled = @ \ {args[3]}, !.active = @ \ {args[3]},
                     !.fs = MapRemove(m.fs, WantsLink(args[3]))]
      [] binary = SYSTEMCTL_BIN /\ args[1] = "stop" -> [m EXCEPT !.active = @ \ {args[2]}]
      [] binary = SYSTEMCTL_BIN /\ args[1] \in {"start", "restart"} ->
           [m EXCEPT !.active = @ \cup {args[2]}]
      [] OTHER -> m

\* The value of a one-element set.
The(S) == CHOOSE x \in S : TRUE

\* The log of gate calls with one more entry.
Logged(m, site, binary, args, r) ==
    [m EXCEPT !.calls = Append(@, [site |-> site, binary |-> binary, args |-> args,
                                   spawned |-> r.spawned, ok |-> r.ok])]

\* Whether the host lets the command exit with success: systemctl stop, enable
\* and disable need the unit's file, userdel an existing user, useradd a new
\* one, mv its source.
CommandSucceeds(m, binary, args) ==
    CASE binary = SYSTEMCTL_BIN /\ Len(args) = 2 /\ args[1] = "stop" ->
           Exists(m.fs, SYSTEMD_TARGET_PATH \o "/" \o args[2])
      [] binary = SYSTEMCTL_BIN /\ Len(args) = 3 /\ args[1] \in {"enable", "disable"} ->
           Exists(m.fs, SYSTEMD_TARGET_PATH \o "/" \o args[3])
      [] binary = USERDEL_BIN /\ Len(args) = 1 -> args[1] \in m.users
      [] binary = USERADD_BIN /\ Len(args) = 4 -> args[4] \notin m.users
      [] binary = MV_BIN /\ Len(args) = 2 -> Exists(m.fs, args[1])
      [] OTHER -> TRUE

\* One privilege_wrapper.run(binary, args) at the call site `site`: the call is
\* logged; when the command ran and succeeded the host changes, otherwise the
\* caller sees Err. env.fail names the call site whose command exits non-zero.
GateCall(m, site, binary, args, env) ==
    The({IF r.ok
           THEN [CommandEffect(Logged(m, site, binary, args, r), binary, args)
                   EXCEPT !.last = TRUE]
           ELSE [Logged(m, site, binary, args, r) EXCEPT !.last = FALSE] :
           r \in {PrivilegeWrapperRun(binary, args,
                                      env.fail # site /\ CommandSucceeds(m, binary, args))}})

\* `privilege_wrapper.run(..)?`: Err ends the run.
GateStep(m, site, binary, args, env) ==
    The({IF after.last THEN after ELSE [after EXCEPT !.err = site] :
           after \in {GateCall(m, site, binary, args, env)}})

\* A call whose result is not dropped: `privilege_wrapper.run(..)?`.
GateStepChecked(m, site, binary, args, env) == GateStep(m, site, binary, args, env)

\* `let _ = privilege_wrapper.run(..)`: the result is dropped.
GateStepIgnored(m, site, binary, args, env) == GateCall(m, site, binary, args, env)

\* A step of the agent itself: `change` when `ok`, else the run ends with `label`.
OwnStep(m, label, ok, change) == IF ok THEN change ELSE [m EXCEPT !.err = label]

\* The statements of the deployment functions: a call of the gate with `?`, a
\* call whose result is dropped, a step of the agent itself, or nothing to do.
Gate(site, binary, args) ==
    [kind |-> "gate", site |-> site, binary |-> binary, args |-> args]

GateIgnored(site, binary, args) ==
    [kind |-> "ignored", site |-> site, binary |-> binary, args |-> args]

Own(label, ok, change) == [kind |-> "own", label |-> label, ok |-> ok, change |-> change]

Skip == [kind |-> "skip"]

\* The host after a statement.
Apply(m, st, env) ==
    CASE st.kind = "gate" -> GateStep(m, st.site, st.binary, st.args, env)
      [] st.kind = "ignored" -> GateStepIgnored(m, st.site, st.binary, st.args, env)
      [] st.kind = "own" -> OwnStep(m, st.label, st.ok, st.change)
      [] st.kind = "skip" -> m

----------------------------------------------------------------------------
(* deployment/git.rs, build.rs, systemd.rs, nginx.rs, tls.rs, teardown.rs *)

None == [some |-> FALSE, value |-> ""]

Some(v) == [some |-> TRUE, value |-> v]

TMP_BASE_PATH == "/opt/nanoscale/tmp"

SOURCE_BASE_PATH == "/opt/nanoscale/sites"

NGINX_SITES_ENABLED == "/etc/nginx/sites-enabled"

ACME_WEBROOT_PATH == "/opt/nanoscale/acme"

SWAP_FILE_PATH == "/opt/nanoscale/tmp/nanoscale.swap"

BACKEND_PORT_OFFSET == 10000

U16_MAX == 65535

UrlChars == AlnumChars \o "._~:/?#[]@!$&'()*+,;=%-"

\* Git::validate_repo_url: ^https://[A-Za-z0-9._~:/?#\[\]@!$&'()*+,;=%-]+$
ValidateRepoUrl(url) ==
    /\ StartsWith(url, "https://")
    /\ Len(url) > Len("https://")
    /\ \A i \in (Len("https://") + 1)..Len(url) : Contains(UrlChars, Char(url, i))

\* Git::validate_branch: ^[a-zA-Z0-9-_]+$
ValidateBranch(branch) ==
    /\ Len(branch) >= 1
    /\ \A i \in 1..Len(branch) :
          IsAsciiAlphanumeric(Char(branch, i)) \/ Char(branch, i) \in {"-", "_"}

\* The grave accent, which a TLA+ string cannot hold, is written as a form feed.
GraveAccent == "\f"

ForbiddenCharacters == {";", "|", "&", ">", "<", GraveAccent, "$", "\n", "\r"}

\* str::trim
RECURSIVE Trim(_)
Trim(s) ==
    IF Len(s) = 0 THEN s
    ELSE IF Char(s, 1) \in {" ", "\t", "\n", "\r"} THEN Trim(SubSeq(s, 2, Len(s)))
    ELSE IF Char(s, Len(s)) \in {" ", "\t", "\n", "\r"} THEN Trim(SubSeq(s, 1, Len(s) - 1))
    ELSE s

\* str::split_whitespace from the i-th character on: cur is the token being
\* read, out the tokens read.
RECURSIVE SplitFrom(_, _, _, _)
SplitFrom(s, i, cur, out) ==
    IF i > Len(s) THEN (IF cur = "" THEN out ELSE Append(out, cur))
    ELSE IF Char(s, i) \in {" ", "\t", "\n", "\r"}
      THEN SplitFrom(s, i + 1, "", IF cur = "" THEN out ELSE Append(out, cur))
    ELSE SplitFrom(s, i + 1, cur \o Char(s, i), out)

SplitWhitespace(s) == SplitFrom(s, 1, "", << >>)

\* The result of parse_command: Err with its message, or Ok((program, arguments)).
ParseErr(message) == [ok |-> FALSE, err |-> message, program |-> "", arguments |-> << >>]

\* parse_command without the check of the forbidden characters.
ParseCommandNoFilter(raw_command, label) ==
    IF SplitWhitespace(Trim(raw_command)) = << >>
      THEN ParseErr(label \o " cannot be empty")
      ELSE [ok |-> TRUE, err |-> "", program |-> Head(SplitWhitespace(Trim(raw_command))),
            arguments |-> Tail(SplitWhitespace(Trim(raw_command)))]

\* BuildSystem::parse_command (label "command") and
\* SystemdGenerator::parse_command (label "run command"), which differ in the
\* messages only.
ParseCommand(raw_command, label) ==
    IF Trim(raw_command) = "" THEN ParseErr(label \o " cannot be empty")
    ELSE IF \E i \in 1..Len(Trim(raw_command)) :
               Char(Trim(raw_command), i) \in ForbiddenCharacters
      THEN ParseErr(label \o " contains unsupported shell control characters")
    ELSE IF SplitWhitespace(Trim(raw_command)) = << >>
      THEN ParseErr(label \o " program is missing")
    ELSE [ok |-> TRUE, err |-> "", program |-> Head(SplitWhitespace(Trim(raw_command))),
          arguments |-> Tail(SplitWhitespace(Trim(raw_command)))]

\* parse_command (build.rs and systemd.rs) returns Ok.
ParseCommandOk(raw) == ParseCommand(raw, "command").ok

\* backend_port that returns the front port.
BackendPortSame(port) ==
    IF port + BACKEND_PORT_OFFSET > U16_MAX
      THEN [ok |-> FALSE, value |-> 0]
      ELSE [ok |-> TRUE, value |-> port]

\* backend_port: the front port plus 10000, an error past 65535.
BackendPort(port) ==
    IF port + BACKEND_PORT_OFFSET > U16_MAX
      THEN [ok |-> FALSE, value |-> 0]
      ELSE [ok |-> TRUE, value |-> port + BACKEND_PORT_OFFSET]

ServiceName(id) == "nanoscale-" \o id

RepoDir(id) == TMP_BASE_PATH \o "/" \o id \o "/source"

DestinationDir(id) == SOURCE_BASE_PATH \o "/" \o id \o "/source"

TmpUnit(id, suffix) == TMP_BASE_PATH \o "/" \o ServiceName(id) \o suffix

UnitTarget(id, suffix) == SYSTEMD_TARGET_PATH \o "/" \o ServiceName(id) \o suffix

SiteConf(id) == NGINX_SITES_ENABLED \o "/" \o ServiceName(id) \o ".conf"

\* A step of one of the functions below, by the function and the step's name.
Step(fn, name, arg) == [fn |-> fn, name |-> name, arg |-> arg]

\* BuildSystem::execute, statement by statement
BuildSteps ==
    <<Step("build", "swap", ""), Step("build", "install", ""), Step("build", "build", ""),
      Step("build", "output-dir", ""), Step("build", "replace", ""),
      Step("build", "copy", ""), Step("build", "bun", ""), Step("build", "useradd", ""),
      Step("build", "id-gn", ""), Step("build", "chown-artifact", "")>>

BuildStep(m, name, req, env) ==
    LET id == req.project_id
        dest == DestinationDir(id)
        user == ServiceName(id)
    IN  CASE name = "swap" ->
               \* ensure_swap_if_low_ram
               IF env.lowRam /\ ~Exists(m.fs, SWAP_FILE_PATH)
                 THEN Gate("fallocate", FALLOCATE_BIN,
                               <<"-l", "2G", SWAP_FILE_PATH>>)
                 ELSE Skip
          [] name = "install" ->
               Own("install",
                       ParseCommandOk(req.install_command) /\ env.fail # "install", m)
          [] name = "build" ->
               Own("build",
                       ParseCommandOk(req.build_command) /\ env.fail # "build", m)
          [] name = "output-dir" -> Own("output-dir", env.fail # "output-dir", m)
          [] name = "replace" ->
               \* replace_directory: remove the old tree, through the gate when denied
               IF Exists(m.fs, dest)
                 THEN IF env.denied
                        THEN Gate("rm-artifact", RM_BIN, <<"-rf", dest>>)
                        ELSE Own("remove-artifact", env.fail # "remove-artifact",
                                     [m EXCEPT !.fs = RemoveAll(@, dest)])
                 ELSE Skip
          [] name = "copy" ->
               \* copy_directory_recursive, file by file
               IF env.fail = "copy"
                 THEN Own("copy", TRUE,
                          [m EXCEPT !.fs = WriteFile(WriteFile(@, SOURCE_BASE_PATH \o "/" \o id,
                                                               Dir),
                                                     dest, File("partial", 0, 0)),
                                    !.err = "copy"])
                 ELSE Own("copy", TRUE,
                          [m EXCEPT !.fs = WriteFile(WriteFile(@, SOURCE_BASE_PATH \o "/" \o id,
                                                               Dir),
                                                     dest, File("artifact", 0, 0))])
          [] name = "bun" -> Own("bun", env.fail # "bun", m)
          [] name = "useradd" ->
               \* ensure_project_system_user
               IF user \notin m.users
                 THEN Gate("useradd", USERADD_BIN,
                               <<"-r", "-s", "/bin/false", user>>)
                 ELSE Skip
          [] name = "id-gn" -> Own("id-gn", env.fail # "id-gn", m)
          [] name = "chown-artifact" ->
               Gate("chown-artifact", CHOWN_BIN,
                        <<"-R", user \o ":" \o user, dest>>)

\* SystemdGenerator::generate_and_install, statement by statement
SystemdSteps ==
    <<Step("systemd", "backend-port", ""), Step("systemd", "socket-proxyd", ""),
      Step("systemd", "run-command", ""), Step("systemd", "write-units", ""),
      Step("systemd", "mv-service", ""), Step("systemd", "mv-socket", ""),
      Step("systemd", "mv-proxy", ""), Step("systemd", "chown-service", ""),
      Step("systemd", "chown-socket", ""), Step("systemd", "chown-proxy", ""),
      Step("systemd", "daemon-reload", ""), Step("systemd", "enable-service", ""),
      Step("systemd", "enable-socket", "")>>

SystemdStep(m, name, req, env) ==
    LET id == req.project_id
        backend == BackendPort(req.port)
    IN  CASE name = "backend-port" -> Own("backend-port", backend.ok, m)
          [] name = "socket-proxyd" ->
               Own("socket-proxyd", env.fail # "socket-proxyd", m)
          [] name = "run-command" ->
               \* service_template: resolve_exec_start parses a non-blank run command
               Own("run-command",
                       TrimIsEmpty(req.run_command) \/ ParseCommandOk(req.run_command), m)
          [] name = "write-units" ->
               Own("write-units", TRUE,
                 [m EXCEPT !.fs =
                    WriteFile(WriteFile(WriteFile(WriteFile(@, TMP_BASE_PATH, Dir),
                      TmpUnit(id, ".service"), File("service", backend.value, 0)),
                      TmpUnit(id, ".socket"), File("socket", req.port, 0)),
                      TmpUnit(id, "-proxy.service"), File("proxy", backend.value, 0))])
          [] name = "mv-service" ->
               Gate("mv-service", MV_BIN,
                        <<TmpUnit(id, ".service"), UnitTarget(id, ".service")>>)
          [] name = "mv-socket" ->
               Gate("mv-socket", MV_BIN,
                        <<TmpUnit(id, ".socket"), UnitTarget(id, ".socket")>>)
          [] name = "mv-proxy" ->
               Gate("mv-proxy", MV_BIN,
                        <<TmpUnit(id, "-proxy.service"), UnitTarget(id, "-proxy.service")>>)
          [] name = "chown-service" ->
               Gate("chown-service", CHOWN_BIN,
                        <<"root:root", UnitTarget(id, ".service")>>)
          [] name = "chown-socket" ->
               Gate("chown-socket", CHOWN_BIN,
                        <<"root:root", UnitTarget(id, ".socket")>>)
          [] name = "chown-proxy" ->
               Gate("chown-proxy", CHOWN_BIN,
                        <<"root:root", UnitTarget(id, "-proxy.service")>>)
          [] name = "daemon-reload" ->
               Gate("daemon-reload", SYSTEMCTL_BIN, <<"daemon-reload">>)
          [] name = "enable-service" ->
               Gate("enable-service", SYSTEMCTL_BIN,
                        <<"enable", "--now", ServiceName(id) \o ".service">>)
          [] name = "enable-socket" ->
               Gate("enable-socket", SYSTEMCTL_BIN,
                        <<"enable", "--now", ServiceName(id) \o ".socket">>)

\* NginxGenerator::generate_and_install; tls is "http" (NginxTlsMode::Disabled)
\* or "https" (Enabled). The site file records its primary and backup upstream.
NginxSteps(tls) ==
    <<Step("nginx", "write-conf", tls), Step("nginx", "mv-conf", tls),
      Step("nginx", "nginx-reload", tls)>>

NginxStep(m, name, tls, req, env) ==
    LET id == req.project_id
        backend == BackendPort(req.port)
        primary == IF backend.ok THEN backend.value ELSE req.port
        tmp == TMP_BASE_PATH \o "/" \o ServiceName(id) \o ".enabled.conf"
    IN  CASE name = "write-conf" ->
               Own("write-conf", TRUE,
                 [m EXCEPT !.fs = WriteFile(WriteFile(@, TMP_BASE_PATH, Dir), tmp,
                                            File(tls, primary, req.port))])
          [] name = "mv-conf" ->
               Gate("mv-conf-" \o tls, MV_BIN, <<tmp, SiteConf(id)>>)
          [] name = "nginx-reload" ->
               Gate("nginx-reload-" \o tls, SERVICE_BIN, <<"nginx", "reload">>)

\* TlsProvisioner::ensure_certificate, statement by statement
TlsSteps ==
    <<Step("tls", "tls-domain-empty", ""), Step("tls", "tls-email-empty", ""),
      Step("tls", "acme-webroot", ""), Step("tls", "certbot", "")>>

TlsStep(m, name, req, env) ==
    LET d == Trim(req.domain.value)
        e == Trim(req.tls_email.value)
    IN  CASE name = "tls-domain-empty" -> Own("tls-domain-empty", d # "", m)
          [] name = "tls-email-empty" -> Own("tls-email-empty", e # "", m)
          [] name = "acme-webroot" ->
               Own("acme-webroot", TRUE,
                       [m EXCEPT !.fs = WriteFile(@, ACME_WEBROOT_PATH, Dir)])
          [] name = "certbot" ->
               Gate("certbot", CERTBOT_BIN,
                        <<"certonly", "--webroot", "-w", ACME_WEBROOT_PATH, "-d", d,
                          "--non-interactive", "--agree-tos", "--keep-until-expiring",
                          "--email", e>>)

\* The closure of internal_projects up to the build (handlers.rs 174-186)
CloneSteps ==
    <<Step("clone", "repo-url", ""), Step("clone", "branch", ""), Step("clone", "mkdir", ""),
      Step("clone", "git-clone", ""), Step("clone", "git-checkout", "")>>

CloneStep(m, name, req, env) ==
    LET id == req.project_id
        repo == RepoDir(id)
    IN  CASE name = "repo-url" -> Own("repo-url", ValidateRepoUrl(req.repo_url), m)
          [] name = "branch" -> Own("branch", ValidateBranch(req.branch), m)
          [] name = "mkdir" ->
               \* create_dir_all(parent), remove an existing repo directory
               Own("mkdir", TRUE,
                 [m EXCEPT !.fs = RemoveAll(WriteFile(WriteFile(@, TMP_BASE_PATH, Dir),
                                                      TMP_BASE_PATH \o "/" \o id, Dir), repo)])
          [] name = "git-clone" ->
               Own("git-clone", env.fail # "git-clone",
                       [m EXCEPT !.fs = WriteFile(@, repo, File("repo", 0, 0))])
          [] name = "git-checkout" -> Own("git-checkout", env.fail # "git-checkout", m)

\* Path::exists, which follows a symbolic link: a wants link whose unit file is
\* gone does not exist.
PathExists(fs, path) ==
    /\ Exists(fs, path)
    /\ fs[path].kind = "link" => Exists(fs, SYSTEMD_TARGET_PATH \o "/" \o FileName(path))

\* remove_file_if_exists / remove_directory_if_exists
RemoveIfExists(m, site, flag, path) ==
    IF PathExists(m.fs, path)
      THEN Gate(site, RM_BIN, <<flag, path>>)
      ELSE Skip

\* Teardown::delete_project, statement by statement
TeardownSteps ==
    <<Step("teardown", "stop-service", ""), Step("teardown", "disable-service", ""),
      Step("teardown", "rm-service-unit", ""), Step("teardown", "rm-socket-unit", ""),
      Step("teardown", "rm-service-wants", ""), Step("teardown", "rm-socket-wants", ""),
      Step("teardown", "teardown-daemon-reload", ""), Step("teardown", "rm-site-conf", ""),
      Step("teardown", "teardown-nginx-reload", ""), Step("teardown", "rm-sites-dir", ""),
      Step("teardown", "rm-tmp-dir", ""), Step("teardown", "userdel", "")>>

TeardownStep(m, name, id, env) ==
    LET service_name == ServiceName(id) \o ".service"
        socket_name == ServiceName(id) \o ".socket"
    IN  CASE name = "stop-service" ->
               GateIgnored("stop-service", SYSTEMCTL_BIN, <<"stop", service_name>>)
          [] name = "disable-service" ->
               GateIgnored("disable-service", SYSTEMCTL_BIN,
                               <<"disable", "--now", service_name>>)
          [] name = "rm-service-unit" ->
               RemoveIfExists(m, "rm-service-unit", "-f",
                              SYSTEMD_TARGET_PATH \o "/" \o service_name)
          [] name = "rm-socket-unit" ->
               RemoveIfExists(m, "rm-socket-unit", "-f",
                              SYSTEMD_TARGET_PATH \o "/" \o socket_name)
          [] name = "rm-service-wants" ->
               RemoveIfExists(m, "rm-service-wants", "-f",
                  SYSTEMD_TARGET_PATH \o "/multi-user.target.wants/" \o service_name)
          [] name = "rm-socket-wants" ->
               RemoveIfExists(m, "rm-socket-wants", "-f",
                  SYSTEMD_TARGET_PATH \o "/sockets.target.wants/" \o socket_name)
          [] name = "teardown-daemon-reload" ->
               Gate("teardown-daemon-reload", SYSTEMCTL_BIN, <<"daemon-reload">>)
          [] name = "rm-site-conf" ->
               RemoveIfExists(m, "rm-site-conf", "-f", SiteConf(id))
          [] name = "teardown-nginx-reload" ->
               \* if nginx_removed: the site file was removed by the statement before
               IF /\ Len(m.calls) > 0
                  /\ m.calls[Len(m.calls)].site = "rm-site-conf"
                 THEN Gate("teardown-nginx-reload", SERVICE_BIN,
                               <<"nginx", "reload">>)
                 ELSE Skip
          [] name = "rm-sites-dir" ->
               RemoveIfExists(m, "rm-sites-dir", "-rf", SOURCE_BASE_PATH \o "/" \o id)
          [] name = "rm-tmp-dir" ->
               RemoveIfExists(m, "rm-tmp-dir", "-rf", TMP_BASE_PATH \o "/" \o id)
          [] name = "userdel" ->
               \* remove_project_user
               IF ServiceName(id) \in m.users
                 THEN Gate("userdel", USERDEL_BIN, <<ServiceName(id)>>)
                 ELSE Skip

\* The statement a step stands for, on the host the statement before left.
Statement(m, step, req, env) ==
    CASE step.fn = "clone" -> CloneStep(m, step.name, req, env)
      [] step.fn = "build" -> BuildStep(m, step.name, req, env)
      [] step.fn = "systemd" -> SystemdStep(m, step.name, req, env)
      [] step.fn = "nginx" -> NginxStep(m, step.name, step.arg, req, env)
      [] step.fn = "tls" -> TlsStep(m, step.name, req, env)
      [] step.fn = "teardown" -> TeardownStep(m, step.name, req.project_id, env)

\* The log of statements with one more entry: the step and whether it returned Ok.
Stepped(after, step) ==
    [after EXCEPT !.steps = Append(@, [step |-> step, ok |-> after.err = ""])]

\* A step on a host where `?` does not return: the statement runs whatever the
\* statements before it returned.
ExecKeepsGoing(m, step, req, env) ==
    The({Stepped(Apply(m, st, env), step) : st \in {Statement(m, step, req, env)}})

\* A step on the host: nothing runs once the function returned Err.
Exec(m, step, req, env) ==
    IF m.err # "" THEN m
    ELSE The({Stepped(Apply(m, st, env), step) : st \in {Statement(m, step, req, env)}})

\* The statements from the i-th on, in order, each on the host the one before left.
RECURSIVE RunFrom(_, _, _, _, _)
RunFrom(m, steps, i, req, env) ==
    IF i > Len(steps) THEN m
    ELSE The({RunFrom(after, steps, i + 1, req, env) :
                after \in {Exec(m, steps[i], req, env)}})

BuildSystemExecute(m0, req, env) == RunFrom(m0, BuildSteps, 1, req, env)

SystemdGenerateAndInstall(m0, req, env) == RunFrom(m0, SystemdSteps, 1, req, env)

NginxGenerateAndInstall(m0, req, tls, env) == RunFrom(m0, NginxSteps(tls), 1, req, env)

EnsureCertificate(m0, req, env) == RunFrom(m0, TlsSteps, 1, req, env)

\* The match on (domain, tls_email) that ends the closure (handlers.rs 221-243).
TlsSummary(m, req, env) ==
    IF m.err # "" THEN m
    ELSE IF req.domain.some /\ req.tls_email.some
      THEN The({IF cert.err = ""
                  THEN The({[https EXCEPT !.tls = IF https.err = "" THEN "TLS enabled" ELSE ""] :
                              https \in {NginxGenerateAndInstall(cert, req, "https", env)}})
                  ELSE [cert EXCEPT !.err = "", !.tls = "TLS provisioning failed"] :
                  cert \in {EnsureCertificate(m, req, env)}})
    ELSE IF req.domain.some
      THEN [m EXCEPT !.tls = "TLS skipped: NANOSCALE_TLS_EMAIL not configured"]
    ELSE [m EXCEPT !.tls = "TLS skipped: no domain assigned"]

\* The closure run by internal_projects (handlers.rs 173-246): the host after the
\* run, with err = "" when the closure returned Ok(tls_summary).
Pipeline(m0, req, env) ==
    The({TlsSummary(deployed, req, env) :
           deployed \in {RunFrom(m0, CloneSteps \o BuildSteps \o SystemdSteps
                                       \o NginxSteps("http"), 1, req, env)}})

\* Teardown::delete_project
TeardownDeleteProject(m0, id, env) ==
    RunFrom(m0, TeardownSteps, 1, [project_id |-> id], env)

----------------------------------------------------------------------------
(* worker.rs: run (the router), worker/handlers.rs *)

\* The middleware layers of the worker's router (worker.rs 117-122): none.
WorkerLayers == {}

\* The layers of the orchestrator's /internal router (orchestrator.rs 192-198).
OrchestratorInternalLayers == {"verify_cluster_signature"}

\* A router passes a request to the route's handler when each of its layers does.
RouterAdmits(layers, req, nowSeconds, table, profile) ==
    "verify_cluster_signature" \in layers
      => VerifyClusterSignature(req, nowSeconds, table, TRUE, profile) = "next"

\* The id and secret under which the worker joined the cluster.
WorkerServerId == "srvW"

WorkerSecret == "keyW"

WorkerTable == [id \in {WorkerServerId} |-> WorkerSecret]

\* Whether a request carries the three headers with a fresh timestamp and the
\* signature of its body under the worker's secret.
ValidlySigned(req, nowSeconds, profile) ==
    VerifyClusterSignature(req, nowSeconds, WorkerTable, TRUE, profile) = "next"

NoRun == [called |-> FALSE]

WorkerIdle ==
    /\ wfs = << >>
    /\ wusers = {}
    /\ wenabled = {}
    /\ wactive = {}
    /\ monitored = << >>
    /\ wLast = NoRun
    /\ wPrev = ""

Host == [fs |-> wfs, users |-> wusers, enabled |-> wenabled, active |-> wactive,
         calls |-> << >>, steps |-> << >>, err |-> "", last |-> TRUE, tls |-> ""]

SetHost(m) ==
    /\ wfs' = m.fs
    /\ wusers' = m.users
    /\ wenabled' = m.enabled
    /\ wactive' = m.active

UnitName(id) == ServiceName(id) \o ".service"

\* monitored_projects.retain(|project| project.service_name != name)
Retain(list, name) == SelectSeq(list, LAMBDA project : project.service_name # name)

\* Nothing of a project id exists on the host: no unit file, wants link, site
\* file, sites or tmp directory, user, enabled or started unit.
ProjectAbsent(host, id) ==
    /\ \A path \in {UnitTarget(id, ".service"), UnitTarget(id, ".socket"),
                     UnitTarget(id, "-proxy.service"),
                     WantsLink(ServiceName(id) \o ".service"),
                     WantsLink(ServiceName(id) \o ".socket"), SiteConf(id),
                     SOURCE_BASE_PATH \o "/" \o id, TMP_BASE_PATH \o "/" \o id} :
          ~Exists(host.fs, path)
    /\ ServiceName(id) \notin host.users
    /\ \A suffix \in {".service", ".socket", "-proxy.service"} :
          ServiceName(id) \o suffix \notin host.enabled \cup host.active

\* The conditions of a run in which every command succeeds.
Quiet == [fail |-> "", lowRam |-> FALSE, denied |-> FALSE]

Response(route, req, ran, status, id, m, env) ==
    [called |-> TRUE, route |-> route, req |-> req, ran |-> ran, status |-> status,
     id |-> id, calls |-> m.calls, steps |-> m.steps, err |-> m.err, tls |-> m.tls,
     quiet |-> env = Quiet, absent |-> ProjectAbsent(Host, id),
     changed |-> <<m.fs, m.users, m.enabled, m.active>> # <<wfs, wusers, wenabled, wactive>>]

\* internal_projects that pushes the service whatever the closure returned.
InternalProjectsOutcomeAlwaysWatched(host, list, payload, env) ==
    The({[status |-> IF m.err = "" THEN "accepted" ELSE "bad_request",
          m |-> m,
          monitored |-> Append(Retain(list, UnitName(payload.project_id)),
                               [service_name |-> UnitName(payload.project_id),
                                port |-> payload.port, scale_to_zero |-> TRUE])] :
            m \in {Pipeline(host, payload, env)}})

\* What internal_projects answers and leaves behind: the status, the host and
\* the monitored list (handlers.rs 139-291).
InternalProjectsOutcome(host, list, payload, env) ==
    The({[status |-> IF m.err = "" THEN "accepted" ELSE "bad_request",
          m |-> m,
          monitored |-> IF m.err = ""
                          THEN Append(Retain(list, UnitName(payload.project_id)),
                                      [service_name |-> UnitName(payload.project_id),
                                       port |-> payload.port, scale_to_zero |-> TRUE])
                          ELSE list] :
            m \in {Pipeline(host, payload, env)}})

\* internal_projects, behind the worker router
InternalProjects(req, payload, env) ==
    IF ~RouterAdmits(WorkerLayers, req, sigNow, WorkerTable, build)
      THEN /\ wLast' = Response("create-project", req, FALSE, "unauthorized",
                                payload.project_id, Host, env)
           /\ UNCHANGED <<wfs, wusers, wenabled, wactive, monitored, wPrev>>
           /\ UNCHANGED workerFrame
      ELSE \E out \in {InternalProjectsOutcome(Host, monitored, payload, env)} :
              /\ SetHost(out.m)
              /\ monitored' = out.monitored
              /\ wLast' = Response("create-project", req, TRUE, out.status,
                                   payload.project_id, out.m, env)
                             @@ [acme |-> payload.domain.some /\ payload.tls_email.some,
                                 port |-> payload.port]
              /\ UNCHANGED wPrev
              /\ UNCHANGED workerFrame

\* internal_delete_project, behind the worker router
InternalDeleteProject(req, id, env) ==
    \E m \in {TeardownDeleteProject(Host, id, env)} :
        IF ~RouterAdmits(WorkerLayers, req, sigNow, WorkerTable, build)
          THEN /\ wLast' = Response("delete-project", req, FALSE, "unauthorized", id, Host,
                                    env)
               /\ UNCHANGED <<wfs, wusers, wenabled, wactive, monitored, wPrev>>
               /\ UNCHANGED workerFrame
          ELSE /\ UNCHANGED workerFrame
               /\ SetHost(m)
               /\ monitored' = IF m.err = "" THEN Retain(monitored, UnitName(id))
                               ELSE monitored
               /\ wLast' = Response("delete-project", req, TRUE,
                                    IF m.err = "" THEN "no_content" ELSE "bad_request",
                                    id, m, env)
               /\ UNCHANGED wPrev

\* internal_health, behind the worker router
InternalHealth(req) ==
    /\ wLast' = IF RouterAdmits(WorkerLayers, req, sigNow, WorkerTable, build)
                  THEN Response("health", req, TRUE, "ok", "", Host, Quiet)
                  ELSE Response("health", req, FALSE, "unauthorized", "", Host, Quiet)
    /\ UNCHANGED <<wfs, wusers, wenabled, wactive, monitored, wPrev>>
    /\ UNCHANGED workerFrame

\* The response is sent.
WorkerRespond ==
    /\ wLast.called
    /\ wLast' = NoRun
    /\ wPrev' = IF wLast.route = "delete-project" /\ wLast.status = "no_content"
                  THEN wLast.id ELSE ""
    /\ UNCHANGED <<wfs, wusers, wenabled, wactive, monitored>>
    /\ UNCHANGED workerFrame

----------------------------------------------------------------------------
(* requests to the worker and the conditions of a run *)

ProjectIds == {"a1", "b2"}

ValidPayload(id) ==
    [project_id |-> id, repo_url |-> "https://github.com/o/r.git", branch |-> "main",
     install_command |-> "bun install", build_command |-> "bun run build",
     run_command |-> "bun run start", port |-> 3100, domain |-> None, tls_email |-> None]

\* The create-project payloads sent to the worker: a valid one, one on a high
\* port, with a domain (with and without an ACME email), and with a rejected
\* repository URL, branch or command.
Payloads ==
    UNION {LET v == ValidPayload(id)
           IN  {v,
                [v EXCEPT !.port = 60000],
                [v EXCEPT !.domain = Some("app.example.com"),
                          !.tls_email = Some("ops@example.com")],
                [v EXCEPT !.domain = Some("app.example.com")],
                [v EXCEPT !.repo_url = "git@github.com:o/r.git"],
                [v EXCEPT !.branch = "feat/x"],
                [v EXCEPT !.build_command = "make; reboot"],
                [v EXCEPT !.run_command = ""]} : id \in {"a1"}}

\* The conditions of one run: the step whose command exits non-zero ("" for
\* none), whether RAM is low, and whether removing the old artifact is denied.
PipelineEnvs ==
    {[Quiet EXCEPT !.fail = f] :
        f \in {"", "copy", "mv-socket"}}
      \cup {[Quiet EXCEPT !.lowRam = TRUE], [Quiet EXCEPT !.denied = TRUE]}

\* The runs of the pipeline: each payload for the first id under each condition,
\* and a valid payload for the second id with every command succeeding.
PipelineRuns == (Payloads \X PipelineEnvs) \cup {<<ValidPayload("b2"), Quiet>>}

TeardownEnvs ==
    {[Quiet EXCEPT !.fail = f] :
        f \in {"", "rm-service-unit"}}

JsonBody(text) == [content |-> text, pad |-> 0]

\* What a sender may attach to a request with this body: the three headers
\* signed with the worker's secret, no cluster header at all, or a signature
\* under another key.
Envelopes(body, t) ==
    LET ts == I64ToString(t)
        signed == [headers |-> ClusterHeaders, serverId |-> WorkerServerId, body |-> body,
                   timestamp |-> ts,
                   signature |-> SignInternalPayload(body, ts, WorkerSecret)]
    IN  {signed,
         [signed EXCEPT !.headers = {}, !.serverId = "", !.timestamp = "",
                        !.signature = NotHex],
         [signed EXCEPT !.signature = SignInternalPayload(body, ts, "keyA")]}

----------------------------------------------------------------------------
(* orchestrator/projects.rs: create_project; orchestrator/project_domain.rs;  *)
(* db/projects.rs; orchestrator/worker_client.rs                              *)

BASE_PROJECT_PORT == 3100

PORT_PROBE_ATTEMPTS == 100

DNS_LABEL_MAX == 63

SUFFIX_LEN == 6

UpperChars == "ABCDEFGHIJKLMNOPQRSTUVWXYZ"

LowerChars == "abcdefghijklmnopqrstuvwxyz"

\* char::to_ascii_lowercase
ToAsciiLowercase(c) ==
    IF Contains(UpperChars, c)
      THEN Char(LowerChars, CHOOSE i \in 1..Len(UpperChars) : Char(UpperChars, i) = c)
      ELSE c

\* str::trim_matches('-') and the `while ends_with('-') pop` loops
\* (what is left runs from the first kept character to the last one that is
\* no dash)
TrimDashes(s, leading) ==
    LET kept == {i \in 1..Len(s) : Char(s, i) # "-"}
        first == IF leading THEN CHOOSE i \in kept : \A j \in kept : i <= j ELSE 1
        last == CHOOSE i \in kept : \A j \in kept : j <= i
    IN  IF kept = {} THEN "" ELSE SubSeq(s, first, last)

\* One iteration of the loop of slugify_project_name, for the i-th character.
SlugStep(name, i, st) ==
    IF IsAsciiAlphanumeric(ToAsciiLowercase(Char(name, i)))
      THEN [slug |-> st.slug \o ToAsciiLowercase(Char(name, i)),
            previous_was_separator |-> FALSE]
    ELSE IF ~st.previous_was_separator
      THEN [slug |-> st.slug \o "-", previous_was_separator |-> TRUE]
    ELSE st

\* The loop of slugify_project_name over the characters lo..hi, entered with
\* the loop variables st: the iterations of the first half, then those of the
\* second half.
RECURSIVE SlugFrom(_, _, _, _)
SlugFrom(name, lo, hi, st) ==
    IF lo > hi THEN st
    ELSE IF lo = hi THEN SlugStep(name, lo, st)
    ELSE The({SlugFrom(name, (lo + hi) \div 2 + 1, hi, half) :
                half \in {SlugFrom(name, lo, (lo + hi) \div 2, st)}})

\* slugify_project_name
SlugifyProjectName(name) ==
    The({[ok |-> slug # "", value |-> slug] :
            slug \in {TrimDashes(SlugFrom(name, 1, Len(name),
                                [slug |-> "", previous_was_separator |-> FALSE]).slug,
                                TRUE)}})

Take(s, n) == IF Len(s) <= n THEN s ELSE SubSeq(s, 1, n)

\* truncate_dns_label without the loop that pops the trailing dashes
TruncateDnsLabelKeepDash(label) ==
    The({IF t = "" THEN "project" ELSE t : t \in {Take(label, DNS_LABEL_MAX)}})

\* truncate_dns_label
TruncateDnsLabel(label) ==
    The({IF t = "" THEN "project" ELSE t :
            t \in {TrimDashes(Take(label, DNS_LABEL_MAX), FALSE)}})

\* usize::saturating_sub, usize::max
SaturatingSub(a, b) == IF a >= b THEN a - b ELSE 0

\* trim_label_for_suffix
TrimLabelForSuffix(label, suffix_len) ==
    The({IF t = "" THEN "project" ELSE t :
            t \in {TrimDashes(Take(label,
                      IF SaturatingSub(DNS_LABEL_MAX, suffix_len + 1) >= 1
                        THEN SaturatingSub(DNS_LABEL_MAX, suffix_len + 1) ELSE 1), FALSE)}})

\* project_id.replace('-', "")
RECURSIVE WithoutDashes(_, _, _)
WithoutDashes(s, lo, hi) ==
    IF lo > hi THEN ""
    ELSE IF lo = hi THEN (IF Char(s, lo) = "-" THEN "" ELSE Char(s, lo))
    ELSE WithoutDashes(s, lo, (lo + hi) \div 2)
           \o WithoutDashes(s, (lo + hi) \div 2 + 1, hi)

\* is_project_port_in_use
IsProjectPortInUse(rows, port) == \E r \in rows : r.port = port

\* is_project_domain_in_use
IsProjectDomainInUse(rows, fqdn) == \E r \in rows : r.domain.some /\ r.domain.value = fqdn

\* next_available_project_port
NextAvailableProjectPort(rows) ==
    IF rows = {} \/ (\A r \in rows : r.port < BASE_PROJECT_PORT)
      THEN BASE_PROJECT_PORT
      ELSE (CHOOSE p \in {r.port : r \in rows} : \A r \in rows : r.port <= p) + 1

\* assigned_project_domain without the two lookups
AssignedProjectDomainUnchecked(rows, base, project_id, project_name) ==
    IF ~base.some THEN [status |-> "ok", domain |-> None]
    ELSE IF ~SlugifyProjectName(project_name).ok
      THEN [status |-> "bad_request", domain |-> None]
    ELSE [status |-> "ok",
          domain |-> Some(TruncateDnsLabel(SlugifyProjectName(project_name).value)
                            \o "." \o base.value)]

\* assigned_project_domain
AssignedProjectDomain(rows, base, project_id, project_name) ==
    IF ~base.some THEN [status |-> "ok", domain |-> None]
    ELSE IF ~SlugifyProjectName(project_name).ok
      THEN [status |-> "bad_request", domain |-> None]
    ELSE \* the label, the first FQDN, the id's suffix and the adjusted FQDN
         The({IF ~IsProjectDomainInUse(rows, n.fqdn)
                THEN [status |-> "ok", domain |-> Some(n.fqdn)]
              ELSE IF IsProjectDomainInUse(rows, n.adjusted)
                THEN [status |-> "conflict", domain |-> None]
              ELSE [status |-> "ok", domain |-> Some(n.adjusted)] :
                n \in {[fqdn |-> label \o "." \o base.value,
                        adjusted |-> TrimLabelForSuffix(label, Len(suffix)) \o "-" \o suffix
                                       \o "." \o base.value] :
                         label \in {TruncateDnsLabel(SlugifyProjectName(project_name).value)},
                         suffix \in {Take(WithoutDashes(project_id, 1, Len(project_id)), SUFFIX_LEN)}}})

\* A listener on 127.0.0.1:port can be bound (internal_port_check, handlers.rs
\* 86-93): no other process holds the port and no started socket unit listens on it.
Bindable(host, bound, port) ==
    /\ port \notin bound.from..bound.to
    /\ ~\E unit \in host.active :
          /\ Exists(host.fs, SYSTEMD_TARGET_PATH \o "/" \o unit)
          /\ host.fs[SYSTEMD_TARGET_PATH \o "/" \o unit].kind = "socket"
          /\ host.fs[SYSTEMD_TARGET_PATH \o "/" \o unit].a = port

\* An iteration of the `for _ in 0..100` loop of create_project that leaves the
\* loop when it looks at `candidate`: the u16 conversion fails, or the port is
\* free in the table and its probe fails or reports it available.
LeavesLoop(rows, host, bound, probeOk, candidate) ==
    \/ candidate > U16_MAX
    \/ /\ ~IsProjectPortInUse(rows, candidate)
       /\ ~probeOk \/ Bindable(host, bound, candidate)

\* The `for _ in 0..100` loop of create_project (projects.rs 375-421), which adds
\* one to the candidate in every iteration that stays in the loop: the outcome
\* of the first iteration that leaves it, the candidate after the last one
\* when none does.
ProbeLoop(rows, host, bound, probeOk, first, attempts) ==
    The({IF leaving = {}
           THEN [status |-> "ok", port |-> first + attempts, probed |-> FALSE]
         ELSE The({IF candidate > U16_MAX
                     THEN [status |-> "internal_error", port |-> 0, probed |-> FALSE]
                   ELSE IF ~probeOk
                     THEN [status |-> "bad_request", port |-> 0, probed |-> FALSE]
                   ELSE [status |-> "ok", port |-> candidate, probed |-> TRUE] :
                     candidate \in {CHOOSE c \in leaving : \A d \in leaving : c <= d}}) :
         leaving \in {{c \in first..(first + attempts - 1) :
                          LeavesLoop(rows, host, bound, probeOk, c)}}})

\* The project port of a create_project that does not look the requested port
\* up in the table.
ProjectPortNoLookup(rows, host, bound, requested, probeOk) ==
    IF requested.some
      THEN IF requested.value < BASE_PROJECT_PORT
             THEN [status |-> "bad_request", port |-> 0, probed |-> FALSE]
           ELSE IF requested.value > U16_MAX
             THEN [status |-> "bad_request", port |-> 0, probed |-> FALSE]
           ELSE IF ~probeOk THEN [status |-> "bad_request", port |-> 0, probed |-> FALSE]
           ELSE IF ~Bindable(host, bound, requested.value)
             THEN [status |-> "conflict", port |-> 0, probed |-> FALSE]
           ELSE [status |-> "ok", port |-> requested.value, probed |-> TRUE]
      ELSE ProbeLoop(rows, host, bound, probeOk, NextAvailableProjectPort(rows),
                     PORT_PROBE_ATTEMPTS)

\* The project port of create_project (projects.rs 302-421): the port to store
\* and whether ports/check reported it available, or the status of the refusal.
\* probeOk is whether the signed ports/check calls get a 2xx answer.
ProjectPort(rows, host, bound, requested, probeOk) ==
    IF requested.some
      THEN IF requested.value < BASE_PROJECT_PORT
             THEN [status |-> "bad_request", port |-> 0, probed |-> FALSE]
           ELSE IF IsProjectPortInUse(rows, requested.value)
             THEN [status |-> "conflict", port |-> 0, probed |-> FALSE]
           ELSE IF requested.value > U16_MAX
             THEN [status |-> "bad_request", port |-> 0, probed |-> FALSE]
           ELSE IF ~probeOk THEN [status |-> "bad_request", port |-> 0, probed |-> FALSE]
           ELSE IF ~Bindable(host, bound, requested.value)
             THEN [status |-> "conflict", port |-> 0, probed |-> FALSE]
           ELSE [status |-> "ok", port |-> requested.value, probed |-> TRUE]
      ELSE ProbeLoop(rows, host, bound, probeOk, NextAvailableProjectPort(rows),
                     PORT_PROBE_ATTEMPTS)

\* The request names a port that a row of the table has.
RequestedPortTaken(rows, requested) ==
    requested.some /\ \E row \in rows : row.port = requested.value

\* Each of the PORT_PROBE_ATTEMPTS ports from the first candidate on is in a row
\* of the table or cannot be bound on the worker host.
CandidatesExhausted(rows, host, bound) ==
    \A candidate \in NextAvailableProjectPort(rows)
                        ..(NextAvailableProjectPort(rows) + PORT_PROBE_ATTEMPTS - 1) :
        /\ candidate <= U16_MAX
        /\ \/ \E row \in rows : row.port = candidate
           \/ ~Bindable(host, bound, candidate)

\* validate_create_project_required_fields
RequiredFieldsOk(payload) ==
    ~(\/ TrimIsEmpty(payload.name)
      \/ TrimIsEmpty(payload.repo_url) /\ ~payload.github_source.some
      \/ TrimIsEmpty(payload.install_command)
      \/ TrimIsEmpty(payload.build_command)
      \/ TrimIsEmpty(payload.run_command))

\* The installations the session's user may use, and the clone URL the
\* repository cache holds for the requested repository.
UserInstallations == {"inst-1"}

GithubCloneUrl == "https://github.com/o/r.git"

\* resolve_github_source (github.rs 722-780): the installation has to be one
\* of the user's.
ResolveGithubSourceOk(payload) ==
    payload.github_source.some => payload.github_source.value \in UserInstallations

\* The repo_url that create_project inserts and sends (projects.rs 270-273):
\* the cached clone URL for a GitHub source, the trimmed request field else.
ResolvedPayload(payload) ==
    IF payload.github_source.some /\ ResolveGithubSourceOk(payload)
      THEN [payload EXCEPT !.repo_url = GithubCloneUrl]
      ELSE payload

\* authenticated_clone_url (github.rs 875-886)
AuthenticatedCloneUrl(clone_url, token) ==
    IF Contains(clone_url, "https://")
      THEN LET at == CHOOSE i \in 1..Len(clone_url) :
                        /\ SubSeq(clone_url, i, i + 7) = "https://"
                        /\ \A j \in 1..(i - 1) : SubSeq(clone_url, j, j + 7) # "https://"
           IN  SubSeq(clone_url, 1, at - 1) \o "https://x-access-token:" \o token \o "@"
                 \o SubSeq(clone_url, at + 8, Len(clone_url))
      ELSE clone_url

\* What the GitHub calls of one create_project do: the installation token is
\* minted and the webhook is created, the token request fails, or the token
\* is minted and the webhook request fails.
GithubOutcomes == {"ok", "no-token", "no-webhook"}

\* The installation access token that installation_access_token returns.
InstallationToken == "ghs_16C7e42F"

\* The WorkerCreateProjectRequest built by call_worker_create_project.
WorkerPayload(payload, project_id, domain, project_port, tls_email) ==
    [project_id |-> project_id, repo_url |-> payload.repo_url, branch |-> payload.branch,
     install_command |-> payload.install_command, build_command |-> payload.build_command,
     run_command |-> payload.run_command, port |-> project_port, domain |-> domain,
     tls_email |-> tls_email]

\* The NewProject that create_project inserts (projects.rs 423-446).
Row(id, port, domain, payload) ==
    [id |-> id, port |-> port, domain |-> domain, server_id |-> payload.server_id,
     name |-> payload.name, repo_url |-> payload.repo_url, branch |-> payload.branch,
     install_command |-> payload.install_command,
     build_command |-> payload.build_command, start_command |-> payload.run_command]

Connections == {1, 2}

\* Uuid::new_v4: an id no row and no other request has. Each connection sends
\* one request, so that its id is new.
NewProjectId(c) == IF c = 1 THEN "a1" ELSE "b2"

IdleRequest == [pc |-> "idle"]

OrchIdle ==
    /\ projects = {}
    /\ creating = [c \in Connections |-> IdleRequest]
    /\ base_domain = None
    /\ portsBound = [from |-> 1, to |-> 0]
    /\ managing = IdleRequest
    /\ monitored_projects = << >>

\* DbClient::get_server_connection_info: the row of the id with its
\* secret_key, none for Ok(None).
NoConnection == [found |-> FALSE, id |-> "", secret_key |-> ""]

GetServerConnectionInfo(table, server_id) ==
    IF server_id \in DOMAIN table
      THEN [found |-> TRUE, id |-> server_id, secret_key |-> table[server_id]]
      ELSE NoConnection

NoResponse == [status |-> "", body |-> << >>]

\* A response of create_project that carries the connection it loaded.
CreateProjectResponseWithConnection(r) ==
    [status |-> r.status, body |-> <<r.id, r.connection.id, r.connection.secret_key>>]

\* What create_project answers: Json(CreateProjectResponse { id, domain }) or
\* the status with its message (projects.rs 253-496).
CreateProjectResponseOf(r) ==
    [status |-> r.status,
     body |->
       CASE r.status = "ok" -> <<r.id, IF r.domain.some THEN r.domain.value ELSE "null">>
         [] r.status = "bad_gateway" /\ r.workerCalled /\ ~r.workerOk ->
              <<"Worker deployment call failed: " \o r.error>>
         [] r.status = "bad_gateway" -> <<r.error>>
         [] r.status = "not_found" -> <<"Selected server was not found">>
         [] r.status = "conflict" /\ r.taken ->
              <<"Requested port " \o NatToString(r.payload.port.value)
                  \o " is already in use">>
         [] r.status = "conflict" /\ r.payload.port.some /\ r.pc # "idle" /\ ~r.taken
                                 /\ r.connection.found /\ r.probed ->
              <<"Requested port " \o NatToString(r.payload.port.value)
                  \o " is already bound on the target server">>
         [] r.status = "conflict" -> <<"Unable to allocate unique subdomain for this project">>
         [] OTHER -> <<r.status>>]

Finish(c, status) ==
    creating' = [creating EXCEPT ![c] = [@ EXCEPT !.pc = "done", !.status = status]]

\* create_project up to the assigned domain (projects.rs 253-295)
CreateProjectBegin(c, payload) ==
    /\ creating[c].pc = "idle"
    /\ \E assigned \in {AssignedProjectDomain(projects, base_domain, NewProjectId(c),
                                               payload.name)} :
         creating' = [creating EXCEPT ![c] =
            [pc |-> IF ~RequiredFieldsOk(payload) \/ ~ResolveGithubSourceOk(payload)
                         \/ payload.server_id \notin DOMAIN servers
                         \/ assigned.status # "ok"
                      THEN "done" ELSE "port",
             status |-> IF ~RequiredFieldsOk(payload) THEN "bad_request"
                        ELSE IF ~ResolveGithubSourceOk(payload) THEN "forbidden"
                        ELSE IF payload.server_id \notin DOMAIN servers THEN "not_found"
                        ELSE IF assigned.status # "ok" THEN assigned.status
                        ELSE "",
             payload |-> ResolvedPayload(payload), id |-> NewProjectId(c),
             domain |-> assigned.domain,
             port |-> 0, probed |-> FALSE, taken |-> FALSE, exhausted |-> FALSE,
             inserted |-> FALSE, workerCalled |-> FALSE,
             workerOk |-> FALSE,
             env |-> Quiet, transportOk |-> TRUE, deleteOk |-> TRUE,
             connection |-> IF RequiredFieldsOk(payload) /\ ResolveGithubSourceOk(payload)
                              THEN GetServerConnectionInfo(servers, payload.server_id)
                              ELSE NoConnection,
             error |-> "", response |-> NoResponse]]
    /\ UNCHANGED <<projects, base_domain, portsBound, managing, monitored_projects>>
    /\ UNCHANGED <<workerVars, orchFrame>>

\* create_project: the project port (projects.rs 302-421)
CreateProjectPort(c, probeOk) ==
    /\ creating[c].pc = "port"
    /\ \E chosen \in {ProjectPort(projects, Host, portsBound, creating[c].payload.port,
                                  probeOk)} :
         creating' = [creating EXCEPT ![c] =
            [@ EXCEPT !.pc = IF chosen.status = "ok" THEN "insert" ELSE "done",
                      !.status = IF chosen.status = "ok" THEN "" ELSE chosen.status,
                      !.port = chosen.port, !.probed = chosen.probed,
                      !.taken = RequestedPortTaken(projects, creating[c].payload.port),
                      !.exhausted = /\ ~creating[c].payload.port.some
                                    /\ probeOk
                                    /\ CandidatesExhausted(projects, Host, portsBound)]]
    /\ UNCHANGED <<projects, base_domain, portsBound, managing, monitored_projects>>
    /\ UNCHANGED <<workerVars, orchFrame>>

\* create_project: insert_project (projects.rs 423-454); dbOk is whether the
\* statement succeeds.
CreateProjectInsert(c, dbOk) ==
    /\ creating[c].pc = "insert"
    /\ IF dbOk
         THEN /\ projects' = projects \cup {Row(creating[c].id, creating[c].port,
                                                creating[c].domain, creating[c].payload)}
              /\ creating' = [creating EXCEPT ![c] = [@ EXCEPT !.pc = "deploy",
                                                               !.inserted = TRUE]]
         ELSE /\ Finish(c, "internal_error")
              /\ UNCHANGED projects
    /\ UNCHANGED <<base_domain, portsBound, managing, monitored_projects>>
    /\ UNCHANGED <<workerVars, orchFrame>>

\* create_project with the compensating delete left out.
CreateProjectDeployNoCompensation(c, env, transportOk, deleteOk, github) ==
    /\ creating[c].pc = "deploy"
    /\ ~(creating[c].payload.github_source.some /\ github = "no-token")
    /\ creating[c].port <= U16_MAX
    /\ ~transportOk
    /\ creating' = [creating EXCEPT ![c] =
          [@ EXCEPT !.pc = "done", !.status = "bad_gateway", !.env = env,
                    !.workerCalled = TRUE,
                    !.transportOk = transportOk, !.deleteOk = deleteOk]]
    /\ UNCHANGED <<projects, base_domain, portsBound, managing, monitored_projects>>
    /\ UNCHANGED <<workerVars, orchFrame>>

\* create_project: the signed call of the worker's create-project and what
\* follows it (projects.rs 456-496). transportOk is whether the request reaches
\* the worker and its answer comes back; deleteOk whether delete_project_by_id
\* succeeds, its result being dropped; github is what the GitHub calls of a
\* request with a GitHub source do.
CreateProjectDeploy(c, env, transportOk, deleteOk, github) ==
    /\ creating[c].pc = "deploy"
    /\ IF creating[c].payload.github_source.some /\ github = "no-token"
         THEN \* authenticated_clone_url(..).await? returns before the call
              /\ creating' = [creating EXCEPT ![c] =
                    [@ EXCEPT !.pc = "done", !.status = "bad_gateway",
                              !.error = "installation token request failed"]]
              /\ UNCHANGED <<projects, workerVars>>
         ELSE IF creating[c].port > U16_MAX
         THEN \* u16::try_from(project_port)? returns before the call
              /\ Finish(c, "internal_error")
              /\ UNCHANGED <<projects, workerVars>>
         ELSE IF ~transportOk
           THEN /\ creating' = [creating EXCEPT ![c] =
                      [@ EXCEPT !.pc = "done", !.status = "bad_gateway", !.env = env,
                    !.workerCalled = TRUE,
                                !.error = "error sending request",
                                !.transportOk = transportOk, !.deleteOk = deleteOk]]
                /\ projects' = IF deleteOk
                                 THEN {r \in projects : r.id # creating[c].id}
                                 ELSE projects
                /\ UNCHANGED workerVars
         ELSE \E out \in {InternalProjectsOutcome(Host, monitored,
                             WorkerPayload(
                                IF creating[c].payload.github_source.some
                                  THEN [creating[c].payload EXCEPT
                                          !.repo_url = AuthenticatedCloneUrl(@, InstallationToken)]
                                  ELSE creating[c].payload,
                                creating[c].id, creating[c].domain, creating[c].port, None),
                             env)} :
                /\ SetHost(out.m)
                /\ monitored' = out.monitored
                /\ UNCHANGED <<wLast, wPrev>>
                /\ creating' = [creating EXCEPT ![c] =
                      [@ EXCEPT !.pc = "done",
                                !.status =
                                   IF /\ out.status = "accepted"
                                      /\ ~(/\ creating[c].payload.github_source.some
                                           /\ github = "no-webhook")
                                     THEN "ok" ELSE "bad_gateway",
                                !.workerCalled = TRUE,
                                !.workerOk = out.status = "accepted",
                                !.error = IF out.status = "accepted"
                                          THEN IF /\ creating[c].payload.github_source.some
                                                  /\ github = "no-webhook"
                                                 THEN "webhook request failed" ELSE ""
                                          ELSE "internal projects endpoint returned 400"
                                                 \o " Bad Request: Deployment pipeline"
                                                 \o " failed: " \o out.m.err,
                                !.env = env, !.transportOk = transportOk,
                                !.deleteOk = deleteOk]]
                /\ projects' = IF out.status # "accepted" /\ deleteOk
                                 THEN {r \in projects : r.id # creating[c].id}
                                 ELSE projects
    /\ UNCHANGED <<base_domain, portsBound, managing, monitored_projects>>
    /\ UNCHANGED orchFrame

\* The response is sent.
CreateProjectRespond(c) ==
    /\ creating[c].pc = "done"
    /\ creating' = [creating EXCEPT ![c] =
          [@ EXCEPT !.pc = "responded", !.response = CreateProjectResponseOf(creating[c])]]
    /\ UNCHANGED <<projects, base_domain, portsBound, managing, monitored_projects>>
    /\ UNCHANGED <<workerVars, orchFrame>>

\* The host as the next handler finds it after a run left m.
HostAfter(m) ==
    [m EXCEPT !.calls = << >>, !.steps = << >>, !.err = "", !.last = TRUE, !.tls = ""]

\* DbClient::get_project_by_id: the rows of the id, none for Ok(None).
GetProjectById(rows, id) == {row \in rows : row.id = id}

\* The CreateProjectRequest that redeploy_project_by_id builds from the stored
\* row (projects.rs 91-103).
StoredPayload(row) ==
    [server_id |-> row.server_id, name |-> row.name, repo_url |-> row.repo_url,
     branch |-> row.branch, install_command |-> row.install_command,
     build_command |-> row.build_command, run_command |-> row.start_command,
     port |-> [some |-> TRUE, value |-> row.port], github_source |-> None]

\* What a delete-project or redeploy request ended with: the status, the calls
\* sent to the worker and whether each was answered with success, and the
\* statements on the table and the monitored set, in the order they ran.
Managed(op, id, known, status, calls, steps) ==
    [pc |-> "done", op |-> op, id |-> id, known |-> known, status |-> status,
     calls |-> calls, steps |-> steps]

WorkerCall(route, id, payload, ok) ==
    [route |-> route, id |-> id, payload |-> payload, ok |-> ok]

\* redeploy_project_by_id that deletes the row of the project when its
\* create-project call does not reach the worker.
RedeployDropsRow(id, envT, envC, deleteSent, createSent) ==
    /\ managing.pc = "idle"
    /\ \E row \in GetProjectById(projects, id) :
         \E torn \in {TeardownDeleteProject(Host, id, envT)} :
           /\ row.server_id \in DOMAIN servers
           /\ row.port <= U16_MAX
           /\ deleteSent /\ torn.err = "" /\ ~createSent
           /\ SetHost(torn)
           /\ monitored' = Retain(monitored, UnitName(id))
           /\ managing' = Managed("redeploy", id, TRUE, "bad_gateway",
                 <<WorkerCall("delete-project", id, << >>, TRUE),
                   WorkerCall("create-project", id,
                      WorkerPayload(StoredPayload(row), id, row.domain, row.port, None),
                      FALSE)>>, << >>)
           /\ projects' = projects \ {row}
    /\ UNCHANGED <<wLast, wPrev>>
    /\ UNCHANGED <<creating, base_domain, portsBound, monitored_projects>>
    /\ UNCHANGED orchFrame

\* redeploy_project_by_id that sends create-project whatever the teardown
\* call returned.
RedeployAnyway(id, envT, envC, deleteSent, createSent) ==
    /\ managing.pc = "idle"
    /\ \E row \in GetProjectById(projects, id) :
         \E torn \in {TeardownDeleteProject(Host, id, envT)} :
           /\ row.port <= U16_MAX
           /\ deleteSent /\ torn.err # "" /\ createSent
           /\ \E wp \in {WorkerPayload(StoredPayload(row), id, row.domain, row.port, None)} :
                \E out \in {InternalProjectsOutcome(HostAfter(torn), monitored, wp, envC)} :
                  /\ SetHost(out.m)
                  /\ monitored' = out.monitored
                  /\ managing' = Managed("redeploy", id, TRUE,
                        IF out.status = "accepted" THEN "accepted" ELSE "bad_gateway",
                        <<WorkerCall("delete-project", id, << >>, FALSE),
                          WorkerCall("create-project", id, wp, out.status = "accepted")>>,
                        << >>)
    /\ UNCHANGED <<wLast, wPrev>>
    /\ UNCHANGED <<projects, creating, base_domain, portsBound, monitored_projects>>
    /\ UNCHANGED orchFrame

\* redeploy_project_by_id (projects.rs 39-140). deleteSent and createSent are
\* whether the request reaches the worker and its answer comes back; envT and
\* envC the conditions of the teardown and of the pipeline run on the worker.
RedeployProjectById(id, envT, envC, deleteSent, createSent) ==
    /\ managing.pc = "idle"
    /\ \E found \in {GetProjectById(projects, id)} :
         IF found = {}
           THEN /\ managing' = Managed("redeploy", id, FALSE, "not_found", << >>, << >>)
                /\ UNCHANGED workerVars
         ELSE \E row \in found :
           IF row.server_id \notin DOMAIN servers
             THEN /\ managing' = Managed("redeploy", id, TRUE, "not_found", << >>, << >>)
                  /\ UNCHANGED workerVars
           ELSE IF row.port > U16_MAX
             THEN /\ managing' = Managed("redeploy", id, TRUE, "internal_error", << >>,
                                         << >>)
                  /\ UNCHANGED workerVars
           ELSE IF ~deleteSent
             THEN /\ managing' = Managed("redeploy", id, TRUE, "bad_gateway",
                        <<WorkerCall("delete-project", id, << >>, FALSE)>>, << >>)
                  /\ UNCHANGED workerVars
           ELSE \E torn \in {TeardownDeleteProject(Host, id, envT)} :
             IF torn.err # ""
               THEN /\ managing' = Managed("redeploy", id, TRUE, "bad_gateway",
                          <<WorkerCall("delete-project", id, << >>, FALSE)>>, << >>)
                    /\ SetHost(torn)
                    /\ UNCHANGED <<monitored, wLast, wPrev>>
             ELSE IF ~createSent
               THEN /\ managing' = Managed("redeploy", id, TRUE, "bad_gateway",
                          <<WorkerCall("delete-project", id, << >>, TRUE),
                            WorkerCall("create-project", id,
                               WorkerPayload(StoredPayload(row), id, row.domain,
                                             row.port, None), FALSE)>>, << >>)
                    /\ SetHost(torn)
                    /\ monitored' = Retain(monitored, UnitName(id))
                    /\ UNCHANGED <<wLast, wPrev>>
             ELSE \E wp \in {WorkerPayload(StoredPayload(row), id, row.domain, row.port,
                                           None)} :
                    \E out \in {InternalProjectsOutcome(HostAfter(torn),
                                   Retain(monitored, UnitName(id)), wp, envC)} :
                      /\ SetHost(out.m)
                      /\ monitored' = out.monitored
                      /\ UNCHANGED <<wLast, wPrev>>
                      /\ managing' = Managed("redeploy", id, TRUE,
                            IF out.status = "accepted" THEN "accepted" ELSE "bad_gateway",
                            <<WorkerCall("delete-project", id, << >>, TRUE),
                              WorkerCall("create-project", id, wp,
                                         out.status = "accepted")>>,
                            << >>)
    /\ UNCHANGED <<projects, creating, base_domain, portsBound, monitored_projects>>
    /\ UNCHANGED orchFrame

\* delete_project that removes the row and the monitored entry whatever the
\* teardown call returned.
DeleteProjectAnyway(id, env, sent, dbOk) ==
    /\ managing.pc = "idle"
    /\ GetProjectById(projects, id) # {}
    /\ ~sent /\ dbOk
    /\ projects' = {row \in projects : row.id # id}
    /\ monitored_projects' = Retain(monitored_projects, UnitName(id))
    /\ managing' = Managed("delete", id, TRUE, "no_content",
                           <<WorkerCall("delete-project", id, << >>, FALSE)>>,
                           <<"row", "monitored">>)
    /\ UNCHANGED workerVars
    /\ UNCHANGED <<creating, base_domain, portsBound>>
    /\ UNCHANGED orchFrame

\* delete_project (projects.rs 176-250). sent is whether the request reaches
\* the worker and its answer comes back, env the conditions of the teardown on
\* the worker, dbOk whether delete_project_by_id succeeds.
DeleteProject(id, env, sent, dbOk) ==
    /\ managing.pc = "idle"
    /\ \E found \in {GetProjectById(projects, id)} :
         IF found = {} \/ \E row \in found : row.server_id \notin DOMAIN servers
           THEN /\ managing' = Managed("delete", id, found # {}, "not_found", << >>,
                                       << >>)
                /\ UNCHANGED <<workerVars, projects, monitored_projects>>
         ELSE IF ~sent
           THEN /\ managing' = Managed("delete", id, TRUE, "bad_gateway",
                      <<WorkerCall("delete-project", id, << >>, FALSE)>>, << >>)
                /\ UNCHANGED <<workerVars, projects, monitored_projects>>
         ELSE \E torn \in {TeardownDeleteProject(Host, id, env)} :
           /\ SetHost(torn)
           /\ UNCHANGED <<wLast, wPrev>>
           /\ IF torn.err # ""
                THEN /\ managing' = Managed("delete", id, TRUE, "bad_gateway",
                           <<WorkerCall("delete-project", id, << >>, FALSE)>>, << >>)
                     /\ UNCHANGED <<monitored, projects, monitored_projects>>
              ELSE /\ monitored' = Retain(monitored, UnitName(id))
                   /\ IF ~dbOk
                        THEN /\ managing' = Managed("delete", id, TRUE, "internal_error",
                                   <<WorkerCall("delete-project", id, << >>, TRUE)>>,
                                   << >>)
                             /\ UNCHANGED <<projects, monitored_projects>>
                        ELSE /\ projects' = {row \in projects : row.id # id}
                             /\ monitored_projects' =
                                   Retain(monitored_projects, UnitName(id))
                             /\ managing' = Managed("delete", id, TRUE, "no_content",
                                   <<WorkerCall("delete-project", id, << >>, TRUE)>>,
                                   <<"row", "monitored">>)
    /\ UNCHANGED <<creating, base_domain, portsBound>>
    /\ UNCHANGED orchFrame

----------------------------------------------------------------------------
(* deployment/inactivity_monitor.rs *)

INACTIVITY_INTERVAL_SECONDS == 60

INACTIVITY_THRESHOLD_SECONDS == 900

\* /proc/uptime when the worker starts, and where the model stops the clock.
UptimeStart == 600

MaxUptime == 1920

\* The connections the socket accepts at most.
MaxConnections == 2

\* service_unit_to_socket_unit
ServiceUnitToSocketUnit(service_unit_name) ==
    IF EndsWith(service_unit_name, ".service")
      THEN SubSeq(service_unit_name, 1, Len(service_unit_name) - Len(".service")) \o ".socket"
      ELSE service_unit_name \o ".socket"

NoTraffic == << >>

\* `inactive_for_seconds >= INACTIVITY_THRESHOLD_SECONDS`
InactiveTooLongInclusive(inactive_for_seconds) ==
    inactive_for_seconds >= INACTIVITY_THRESHOLD_SECONDS

\* `inactive_for_seconds > INACTIVITY_THRESHOLD_SECONDS`
InactiveTooLong(inactive_for_seconds) ==
    inactive_for_seconds > INACTIVITY_THRESHOLD_SECONDS

\* An entry whose activity time every tick renews.
TrafficEntryTouch(state, name, nconnections, now_uptime_seconds) ==
    [last_nconnections |-> nconnections,
     last_activity_uptime_seconds |-> now_uptime_seconds]

\* The entry of the service after `entry(..).or_insert_with(..)` and the update
\* of a changed counter.
TrafficEntry(state, name, nconnections, now_uptime_seconds) ==
    IF name \in DOMAIN state /\ state[name].last_nconnections = nconnections
      THEN state[name]
      ELSE [last_nconnections |-> nconnections,
            last_activity_uptime_seconds |-> now_uptime_seconds]

\* should_stop_service: "err" for Err, else whether to stop, with the traffic
\* state it leaves. rd tells which of the readings succeed; now_uptime_seconds
\* is 0 when /proc/uptime cannot be read.
ShouldStopService(project, state, u, now_uptime_seconds, rd) ==
    IF ~PrivilegeWrapperRun(SYSTEMCTL_BIN,
            <<"show", "--property=ActiveState", "--value", project.service_name>>,
            rd.activeOk).ok
      THEN [result |-> "err", state |-> state, compared |-> FALSE]
    ELSE IF ~u.active THEN [result |-> "false", state |-> state, compared |-> FALSE]
    ELSE IF now_uptime_seconds = 0
      THEN [result |-> "false", state |-> state, compared |-> FALSE]
    ELSE IF ~PrivilegeWrapperRun(SYSTEMCTL_BIN,
            <<"show", "--property=NConnections", "--value",
              ServiceUnitToSocketUnit(project.service_name)>>,
            rd.nconnOk).ok
      THEN [result |-> "false", state |-> state, compared |-> FALSE]
    ELSE The({[result |-> IF InactiveTooLong(SaturatingSub(now_uptime_seconds,
                                               entry.last_activity_uptime_seconds))
                            THEN "true" ELSE "false",
               state |-> MapInsert(state, project.service_name, entry),
               compared |-> TRUE] :
                entry \in {TrafficEntry(state, project.service_name, u.nconnections,
                                        now_uptime_seconds)}})

NoTick == [ticked |-> FALSE, stopCalled |-> FALSE, compared |-> FALSE]

MonitorIdle ==
    /\ traffic_state = NoTraffic
    /\ uptime = UptimeStart
    /\ svc = [active |-> FALSE, nconnections |-> 0]
    /\ observed = [since |-> UptimeStart, changed |-> 0, run |-> 0]
    /\ monLast = NoTick

\* What the ticks have seen after this one: the uptime of the last tick at which
\* the counter differed from the one seen before or was seen for the first
\* time, and for how many ticks in a row (up to four) it has been the same.
Observe(seen, stored, name, nconnections, now_uptime_seconds) ==
    IF name \in DOMAIN stored /\ stored[name].last_nconnections = nconnections
      THEN [seen EXCEPT !.run = IF @ < 4 THEN @ + 1 ELSE 4]
      ELSE [seen EXCEPT !.changed = now_uptime_seconds, !.run = 1]

\* One iteration of the loop of InactivityMonitor::spawn, INACTIVITY_INTERVAL_SECONDS
\* after the one before, for the one project of the list: the check and, on
\* Ok(true), systemctl stop through the gate. stopOk is the exit of that command.
MonitorTick(rd, stopOk) ==
    /\ uptime + INACTIVITY_INTERVAL_SECONDS <= MaxUptime
    /\ Len(monitored) = 1
    /\ uptime' = uptime + INACTIVITY_INTERVAL_SECONDS
    /\ \E check \in {IF monitored[1].scale_to_zero
                       THEN ShouldStopService(monitored[1], traffic_state, svc,
                               IF rd.uptimeOk THEN uptime + INACTIVITY_INTERVAL_SECONDS
                               ELSE 0, rd)
                       ELSE [result |-> "skipped", state |-> traffic_state,
                             compared |-> FALSE]} :
         \E stop \in {PrivilegeWrapperRun(SYSTEMCTL_BIN,
                                          <<"stop", monitored[1].service_name>>, stopOk)} :
           /\ traffic_state' = check.state
           /\ svc' = IF check.result = "true" /\ stop.ok
                        THEN [svc EXCEPT !.active = FALSE] ELSE svc
           /\ observed' = IF check.compared
                            THEN Observe(observed, traffic_state,
                                         monitored[1].service_name, svc.nconnections,
                                         uptime')
                            ELSE [observed EXCEPT !.run = 0]
           /\ monLast' = [ticked |-> TRUE, rd |-> rd, result |-> check.result,
                          project |-> monitored[1], now |-> uptime',
                          compared |-> check.compared,
                          wasActive |-> svc.active,
                          stored |-> traffic_state,
                          nconnections |-> svc.nconnections,
                          stopCalled |-> check.result = "true",
                          stopSpawned |-> check.result = "true" /\ stop.spawned]
    /\ UNCHANGED monitorFrame

\* A client connects to the socket: NConnections grows and socket activation
\* starts the service when it is stopped.
Connect ==
    /\ svc.nconnections < MaxConnections
    /\ svc' = [active |-> TRUE, nconnections |-> svc.nconnections + 1]
    /\ observed' = IF svc.active THEN observed ELSE [observed EXCEPT !.since = uptime]
    /\ UNCHANGED <<traffic_state, uptime, monLast>>
    /\ UNCHANGED monitorFrame

\* The units of the worker's projects when it has several: svc and observed
\* then hold one record per service unit.
MonitoredUnits == {UnitName("a1"), UnitName("b2")}

NoLoopTick == [ticked |-> FALSE, now |-> UptimeStart, list |-> << >>, log |-> << >>]

\* The loop body that gives up the tick at the first check that fails.
RECURSIVE CheckProjectsUntilError(_, _, _, _, _, _)
CheckProjectsUntilError(list, i, st, now_uptime_seconds, rds, stopOks) ==
    IF i > Len(list) THEN st
    ELSE IF ~list[i].scale_to_zero
      THEN CheckProjectsUntilError(list, i + 1, st, now_uptime_seconds, rds, stopOks)
    ELSE
      LET name == list[i].service_name
          check == ShouldStopService(list[i], st.traffic, st.svc[name],
                      IF rds[name].uptimeOk THEN now_uptime_seconds ELSE 0, rds[name])
          stop == PrivilegeWrapperRun(SYSTEMCTL_BIN, <<"stop", name>>, stopOks[name])
          next == [traffic |-> check.state,
                   svc |-> IF check.result = "true" /\ stop.ok
                             THEN [st.svc EXCEPT ![name].active = FALSE] ELSE st.svc,
                   log |-> Append(st.log,
                             [service_name |-> name, result |-> check.result,
                              readable |-> rds[name] = [activeOk |-> TRUE, uptimeOk |-> TRUE,
                                                        nconnOk |-> TRUE],
                              stopCalled |-> check.result = "true",
                              stopOk |-> check.result = "true" /\ stop.ok])]
      IN  IF check.result = "err" \/ (check.result = "true" /\ ~stop.ok)
            THEN next
            ELSE CheckProjectsUntilError(list, i + 1, next, now_uptime_seconds, rds,
                                         stopOks)

\* The body of the `for project in projects` loop of InactivityMonitor::spawn
\* for the projects from place i on (inactivity_monitor.rs 44-79): a project
\* without scale_to_zero is skipped, the others are checked and, on Ok(true),
\* stopped through the gate; whatever the check or the stop returns, the loop
\* goes on with the next project. st holds the traffic state, the services
\* and the log of the checks so far.
RECURSIVE CheckProjects(_, _, _, _, _, _)
CheckProjects(list, i, st, now_uptime_seconds, rds, stopOks) ==
    IF i > Len(list) THEN st
    ELSE IF ~list[i].scale_to_zero
      THEN CheckProjects(list, i + 1, st, now_uptime_seconds, rds, stopOks)
    ELSE
      LET name == list[i].service_name
          check == ShouldStopService(list[i], st.traffic, st.svc[name],
                      IF rds[name].uptimeOk THEN now_uptime_seconds ELSE 0, rds[name])
          stop == PrivilegeWrapperRun(SYSTEMCTL_BIN, <<"stop", name>>, stopOks[name])
      IN  CheckProjects(list, i + 1,
             [traffic |-> check.state,
              svc |-> IF check.result = "true" /\ stop.ok
                        THEN [st.svc EXCEPT ![name].active = FALSE] ELSE st.svc,
              log |-> Append(st.log,
                        [service_name |-> name, result |-> check.result,
                         readable |-> rds[name] = [activeOk |-> TRUE, uptimeOk |-> TRUE,
                                                   nconnOk |-> TRUE],
                         stopCalled |-> check.result = "true",
                         stopOk |-> check.result = "true" /\ stop.ok])],
             now_uptime_seconds, rds, stopOks)

\* One iteration of the loop of InactivityMonitor::spawn (inactivity_monitor.rs
\* 40-80) over the monitored list as it is read at the tick. rds and stopOks
\* tell, for each service, which readings succeed and how systemctl stop exits.
MonitorLoopTick(rds, stopOks) ==
    /\ uptime + INACTIVITY_INTERVAL_SECONDS <= MaxUptime
    /\ uptime' = uptime + INACTIVITY_INTERVAL_SECONDS
    /\ \E after \in {CheckProjects(monitored, 1,
                          [traffic |-> traffic_state, svc |-> svc, log |-> << >>],
                          uptime + INACTIVITY_INTERVAL_SECONDS, rds, stopOks)} :
         /\ traffic_state' = after.traffic
         /\ svc' = after.svc
         /\ monLast' = [ticked |-> TRUE, now |-> uptime', list |-> monitored,
                        log |-> after.log]
    /\ UNCHANGED observed
    /\ UNCHANGED monitorFrame

\* A client connects to the socket of a deployed service: NConnections grows
\* and socket activation starts the service when it is stopped.
ConnectTo(name) ==
    /\ observed[name].deployed
    /\ svc[name].nconnections < MaxConnections
    /\ svc' = [svc EXCEPT ![name] = [active |-> TRUE,
                                     nconnections |-> svc[name].nconnections + 1]]
    /\ UNCHANGED <<traffic_state, uptime, observed, monLast>>
    /\ UNCHANGED monitorFrame

\* internal_projects after a pipeline run that completed (handlers.rs 271-280):
\* the entry of the service is replaced by a new one with scale_to_zero set.
\* The units were started by the run, the new socket has no connection yet.
MonitorDeployed(id) ==
    /\ ~observed[UnitName(id)].deployed
    /\ monitored' = Append(Retain(monitored, UnitName(id)),
                           [service_name |-> UnitName(id), port |-> BASE_PROJECT_PORT,
                            scale_to_zero |-> TRUE])
    /\ svc' = [svc EXCEPT ![UnitName(id)] = [active |-> TRUE, nconnections |-> 0]]
    /\ observed' = [observed EXCEPT ![UnitName(id)] = [deployed |-> TRUE, since |-> uptime]]
    /\ UNCHANGED <<traffic_state, uptime, monLast>>
    /\ UNCHANGED <<wfs, wusers, wenabled, wactive, wLast, wPrev>>
    /\ UNCHANGED <<tokenVars, sigVars, gateVars, orchVars, joinVars, pureVars>>

\* internal_delete_project after a teardown that succeeded (handlers.rs
\* 106-111): the entry of the service leaves the monitored list. The traffic
\* state of the monitor is not touched.
MonitorDeleted(id) ==
    /\ observed[UnitName(id)].deployed
    /\ monitored' = Retain(monitored, UnitName(id))
    /\ svc' = [svc EXCEPT ![UnitName(id)] = [active |-> FALSE, nconnections |-> 0]]
    /\ observed' = [observed EXCEPT ![UnitName(id)].deployed = FALSE]
    /\ UNCHANGED <<traffic_state, uptime, monLast>>
    /\ UNCHANGED <<wfs, wusers, wenabled, wactive, wLast, wPrev>>
    /\ UNCHANGED <<tokenVars, sigVars, gateVars, orchVars, joinVars, pureVars>>

----------------------------------------------------------------------------
(* specifications *)

TokenIdle ==
    /\ tokens = << >>
    /\ now = 0
    /\ generated = << >>
    /\ consumeTrue = [v \in TokenValues |-> {}]
    /\ consumeCount = [v \in TokenValues |-> 0]
    /\ lastConsume = NoCall
    /\ pending = NoPending

InitToken == JoinIdle /\ MonitorIdle /\ OrchIdle /\ TokenIdle /\ SigIdle /\ WorkerIdle /\ GateIdle

NextToken ==
    \/ \E v \in TokenValues : GenerateToken(v)
    \/ \E v \in TokenValues : ConsumeValidToken(v)
    \/ \E d \in ClockSteps : AdvanceClock(d)

SpecToken == InitToken /\ [][NextToken]_vars

\* Tasks that call the token store concurrently.
NextTokenTasks ==
    \/ \E p \in Callers, op \in {"generate", "consume"}, v \in TokenValues :
          CallBegin(p, op, v)
    \/ \E p \in Callers : CallPrune(p)
    \/ \E p \in Callers : CallLocked(p)
    \/ \E p \in Callers : CallReturn(p)
    \/ AdvanceClock(TOKEN_TTL_SECONDS)

SpecTokenTasks == InitToken /\ [][NextTokenTasks]_vars

\* The tokens a join request may carry: the values generate_token draws and
\* one it never returns.
JoinTokens == TokenValues \cup {"not-valid"}

InitJoin == JoinIdle /\ MonitorIdle /\ OrchIdle /\ TokenIdle /\ SigIdle /\ WorkerIdle /\ GateIdle

NextJoin ==
    \/ \E v \in TokenValues : GenerateToken(v)
    \/ \E v \in JoinTokens, secret_key \in {"keyA", "keyB"}, dbOk \in BOOLEAN :
          JoinCluster(v, secret_key, dbOk)
    \/ \E d \in {TOKEN_TTL_SECONDS \div 2, TOKEN_TTL_SECONDS} : AdvanceClock(d)

SpecJoin == InitJoin /\ [][NextJoin]_vars

\* n copies of the character c.
RECURSIVE Rep(_, _)
Rep(c, n) ==
    IF n = 0 THEN "" ELSE IF n = 1 THEN c
    ELSE Rep(c, n \div 2) \o Rep(c, n - n \div 2)

\* Project names: short and long ones, of letters in both cases, digits and
\* other characters, with dashes where the 63-character and the
\* 56-character cuts fall.
ProjectNames ==
    {head \o body \o tail :
        head \in {"", "-", "My ", "_!"},
        body \in {"a", "App", Rep("a", 55), Rep("a", 56), Rep("a", 62), Rep("Z", 63)},
        tail \in {"", "-b", "--b", " B!", "-", "9_9"}}
      \cup {"", "--", "!!"}

\* Ids as Uuid::new_v4().to_string() writes them.
Uuids == {"0a1b2c3d-4e5f-4a6b-8c7d-0123456789ab", "ffffffff-0000-4000-8000-000000000000"}

\* The rows of other projects when the name is assigned its domain: none, one
\* holding the domain of a project of the same name, or also one holding the
\* id-suffixed domain.
RowsTaking(taken, base, project_id, project_name) ==
    LET plain == AssignedProjectDomain({}, base, project_id, project_name)
        one == IF plain.status = "ok" /\ plain.domain.some
                 THEN {[id |-> "p1", port |-> BASE_PROJECT_PORT, domain |-> plain.domain]}
                 ELSE {}
        suffixed == AssignedProjectDomain(one, base, project_id, project_name)
        two == IF one # {} /\ suffixed.status = "ok"
                 THEN one \cup {[id |-> "p2", port |-> BASE_PROJECT_PORT + 1,
                                 domain |-> suffixed.domain]}
                 ELSE one
    IN  IF taken = "none" THEN {} ELSE IF taken = "plain" THEN one ELSE two

\* assigned_project_domain is called for a name and an id.
AssignDomain(project_name, project_id, base, taken) ==
    /\ pureLast = NoPure
    /\ \E rows \in {RowsTaking(taken, base, project_id, project_name)} :
         pureLast' = [fn |-> "assigned_project_domain", name |-> project_name,
                      id |-> project_id, base |-> base, rows |-> rows,
                      result |-> AssignedProjectDomain(rows, base, project_id,
                                                       project_name)]
    /\ UNCHANGED pureFrame

\* The result is returned.
PureReturn ==
    /\ pureLast # NoPure
    /\ pureLast' = NoPure
    /\ UNCHANGED pureFrame

InitDomain == InitToken

NextDomain ==
    \/ \E project_name \in ProjectNames, project_id \in Uuids,
          base \in {None, Some("example.com")}, taken \in {"none", "plain", "both"} :
          AssignDomain(project_name, project_id, base, taken)
    \/ PureReturn

SpecDomain == InitDomain /\ [][NextDomain]_vars

\* The texts given to parse_command: commands with and without each of the
\* forbidden characters, between white space of every kind.
CommandTexts ==
    {head \o body \o tail :
        head \in {"", " ", "\n", "\t "},
        body \in {"", "bun", "bun run  build", "a\tb -c", "ls;rm", "a|b", "a&b", "a>b",
                  "a<b", "a" \o GraveAccent \o "b", "a$b", "a\nb", "a\rb"},
        tail \in {"", " ", "\n", "\r\n"}}

\* parse_command is called for a text.
ParseCommandCall(raw_command, label) ==
    /\ pureLast = NoPure
    /\ pureLast' = [fn |-> "parse_command", input |-> raw_command, label |-> label,
                    result |-> ParseCommand(raw_command, label)]
    /\ UNCHANGED pureFrame

NextParse ==
    \/ \E raw_command \in CommandTexts, label \in {"command", "run command"} :
          ParseCommandCall(raw_command, label)
    \/ PureReturn

SpecParse == InitDomain /\ [][NextParse]_vars

InitSig == JoinIdle /\ MonitorIdle /\ OrchIdle /\ TokenIdle /\ WorkerIdle /\ GateIdle /\ \E profile \in Builds : SigInit(profile)

NextSig ==
    \/ InsertServer("srvA", "keyA")
    \/ SigTick
    \/ SigRespond
    \/ /\ ~sigLast.called
       /\ \E req \in RequestsAt(sigNow), dbOk \in BOOLEAN : GuardedRequest(req, dbOk)

SpecSig == InitSig /\ [][NextSig]_vars

InitWorker == JoinIdle /\ MonitorIdle /\ OrchIdle /\ TokenIdle /\ GateIdle /\ WorkerIdle /\ \E profile \in Builds : SigInit(profile)

NextWorker ==
    \/ WorkerRespond
    \/ /\ ~wLast.called
       /\ \E run \in PipelineRuns :
            \E req \in Envelopes(JsonBody(run[1].project_id), sigNow) :
                InternalProjects(req, run[1], run[2])
    \/ /\ ~wLast.called
       /\ \E id \in ProjectIds, env \in TeardownEnvs :
            \E req \in Envelopes(JsonBody(id), sigNow) : InternalDeleteProject(req, id, env)
    \/ /\ ~wLast.called
       /\ \E req \in Envelopes(JsonBody(""), sigNow) : InternalHealth(req)

SpecWorker == InitWorker /\ [][NextWorker]_vars

\* The host after a pipeline run of the request on host m0 all of whose
\* commands ran: the run up to the chown of the unit files, and
\* generate_and_install (systemd.rs 83-92) and the site file from there on.
DeployedHost(m0, req) ==
    The({HostAfter(RunFrom([stuck EXCEPT !.err = ""],
                           SystemdSteps \o NginxSteps("http"), 11, req, Quiet)) :
           stuck \in {Pipeline(m0, req, Quiet)}})

\* A worker on which project a1 is deployed on port 3100: its service and its
\* socket are enabled and started, and the socket has started the proxy
\* service if a client has connected.
InitDeployed ==
    /\ JoinIdle /\ MonitorIdle /\ OrchIdle /\ TokenIdle /\ GateIdle
    /\ \E profile \in Builds : SigInit(profile)
    /\ \E host \in {DeployedHost([fs |-> << >>, users |-> {}, enabled |-> {},
                                   active |-> {}, calls |-> << >>, steps |-> << >>,
                                   err |-> "", last |-> TRUE, tls |-> ""],
                                  ValidPayload("a1"))} :
         /\ wfs = host.fs
         /\ wusers = host.users
         /\ wenabled = host.enabled
         /\ \E connected \in BOOLEAN :
               wactive = host.active \cup
                           (IF connected THEN {ServiceName("a1") \o "-proxy.service"}
                            ELSE {})
    /\ monitored = <<[service_name |-> UnitName("a1"), port |-> 3100,
                      scale_to_zero |-> TRUE]>>
    /\ wLast = NoRun
    /\ wPrev = ""

NextDeployed ==
    \/ WorkerRespond
    \/ /\ ~wLast.called
       /\ \E id \in ProjectIds, env \in TeardownEnvs :
            \E req \in Envelopes(JsonBody(id), sigNow) : InternalDeleteProject(req, id, env)
    \/ /\ ~wLast.called
       /\ \E req \in Envelopes(JsonBody(""), sigNow) : InternalHealth(req)

SpecDeployed == InitDeployed /\ [][NextDeployed]_vars

\* Moves handed to the gate: each kind of temporary file to each kind of
\* destination, and sources and destinations outside the directories.
MoveLists ==
    {<<source, destination>> :
        source \in {TmpUnit("a1", ".service"), TmpUnit("a1", ".socket"),
                    TMP_BASE_PATH \o "/nanoscale-a1.enabled.conf",
                    TMP_BASE_PATH \o "/nanoscale-a1.txt", "/tmp/nanoscale-a1.service"},
        destination \in {UnitTarget("a1", ".service"), UnitTarget("a1", ".socket"),
                         SiteConf("a1"), "/etc/nginx/sites-available/nanoscale-a1.CONF",
                         "/etc/systemd/system/nanoscale-a1.conf", "/etc/passwd"}}

\* certonly lists handed to the gate: options given twice, values of every
\* kind, a flag left out, an unknown flag and a value left out.
CertonlyLists ==
    {<<"certonly", "--webroot">> \o w \o d \o <<"--non-interactive">> \o tail
       \o <<"--email", email>> :
        w \in {<<"-w", ACME_WEBROOT_PATH>>, <<"-w", "/etc", "-w", ACME_WEBROOT_PATH>>},
        d \in {<<"-d", "app.example.com">>, <<"-d", "localhost">>,
               <<"-d", "bad_host/x", "-d", "app.example.com">>},
        tail \in {<<"--agree-tos", "--keep-until-expiring">>, <<"--keep-until-expiring">>,
                  <<"--agree-tos", "--keep-until-expiring", "--webroot">>,
                  <<"--agree-tos", "--keep-until-expiring", "--force">>},
        email \in {"ops@example.com", "ops example.com", "ops@example.com\tx"}}
      \cup {<<"certonly", "--webroot", "-w", ACME_WEBROOT_PATH, "--non-interactive",
              "--agree-tos", "--keep-until-expiring", "--email", "ops@example.com",
              "-d">>}

\* The argument lists handed to the gate: those of the call sites for a project
\* id, and lists no call site builds.
GateArgLists ==
    {<< >>,
     <<"daemon-reload">>,
     <<"enable", "--now", "nanoscale-a1.service">>,
     <<"enable", "--now", "nanoscale-a1.socket">>,
     <<"enable", "--now", "sshd.service">>,
     <<"disable", "--now", "nanoscale-a1.service">>,
     <<"stop", "nanoscale-a1.service">>,
     <<"stop", "sshd.service">>,
     <<"status", "nanoscale-agent">>,
     <<"nginx", "reload">>,
     <<"ssh", "stop">>,
     <<"-r", "-s", "/bin/false", "nanoscale-a1">>,
     <<"-r", "-s", "/bin/bash", "nanoscale-a1">>,
     <<"-r", "-s", "/bin/false", "admin">>,
     <<"nanoscale-a1">>,
     <<"root">>,
     <<TmpUnit("a1", ".service"), UnitTarget("a1", ".service")>>,
     <<TmpUnit("a1", ".socket"), UnitTarget("a1", ".socket")>>,
     <<TMP_BASE_PATH \o "/nanoscale-a1.enabled.conf", SiteConf("a1")>>,
     <<TmpUnit("a1", ".service"), "/etc/systemd/system/sshd.service">>,
     <<"/etc/shadow", UnitTarget("a1", ".service")>>,
     <<"-f", UnitTarget("a1", ".service")>>,
     <<"-f", SiteConf("a1")>>,
     <<"-rf", SOURCE_BASE_PATH \o "/a1">>,
     <<"-rf", DestinationDir("a1")>>,
     <<"-rf", "/">>,
     <<"-rf", "/opt/nanoscale/sites/../../etc">>,
     <<"-R", "nanoscale-a1:nanoscale-a1", DestinationDir("a1")>>,
     <<"-R", "root:root", DestinationDir("a1")>>,
     <<"-R", "nanoscale-a1:nanoscale-a1", "/etc">>,
     <<"root:root", UnitTarget("a1", ".service")>>,
     <<"-l", "2G", SWAP_FILE_PATH>>,
     <<"-l", "2G", "/etc/passwd">>,
     <<"certonly", "--webroot", "-w", ACME_WEBROOT_PATH, "-d", "app.example.com",
       "--non-interactive", "--agree-tos", "--keep-until-expiring",
       "--email", "ops@example.com">>,
     <<"certonly", "--webroot", "-w", "/etc", "-d", "app.example.com",
       "--non-interactive", "--agree-tos", "--keep-until-expiring",
       "--email", "ops@example.com">>,
     <<"certonly", "--webroot", "-w", ACME_WEBROOT_PATH>>,
     <<"--nginx", "-d">>}
      \cup CertonlyLists \cup MoveLists

\* The binaries handed to the gate: the nine of the allowlist, and three others.
GateBinaries == AllowedBinaries \cup {"/bin/sh", "/usr/bin/systemctl2", "systemctl"}

InitGate == JoinIdle /\ MonitorIdle /\ OrchIdle /\ TokenIdle /\ SigIdle /\ WorkerIdle /\ GateIdle

NextGate ==
    \/ GateReturn
    \/ /\ ~gateLast.called
       /\ \E binary \in GateBinaries, args \in GateArgLists, exitOk \in BOOLEAN :
            GateRun(binary, args, exitOk)

SpecGate == InitGate /\ [][NextGate]_vars

\* The create-project requests sent to the orchestrator: no port, a port in use
\* by nobody, one below the base, one whose backend port does not exist, an
\* unknown server, a blank name and a name without letters or digits.
OrchPayload ==
    [server_id |-> WorkerServerId, name |-> "My App",
     repo_url |-> "https://github.com/o/r.git", branch |-> "main",
     install_command |-> "bun install", build_command |-> "bun run build",
     run_command |-> "bun run start", port |-> [some |-> FALSE, value |-> 0],
     github_source |-> None]

PortRequest(port) == [some |-> TRUE, value |-> port]

OrchPayloads ==
    {OrchPayload,
     [OrchPayload EXCEPT !.port = PortRequest(BASE_PROJECT_PORT)],
     [OrchPayload EXCEPT !.port = PortRequest(BASE_PROJECT_PORT - 1)],
     [OrchPayload EXCEPT !.port = PortRequest(60000)],
     [OrchPayload EXCEPT !.server_id = "ghost"],
     [OrchPayload EXCEPT !.name = " "],
     [OrchPayload EXCEPT !.name = "--"],
     [OrchPayload EXCEPT !.repo_url = "", !.github_source = Some("inst-1")],
     [OrchPayload EXCEPT !.repo_url = "", !.github_source = Some("inst-9")]}

\* The second connection sends a request without a port or one for the base port.
PayloadsOf(c) ==
    IF c = 1 THEN OrchPayloads
    ELSE {OrchPayload, [OrchPayload EXCEPT !.port = PortRequest(BASE_PROJECT_PORT)]}

DeployEnvs == {Quiet, [Quiet EXCEPT !.fail = "git-clone"]}

\* The worker host's loopback ports held by other processes: none, the base
\* port, or every port.
BoundRanges ==
    {[from |-> 1, to |-> 0], [from |-> BASE_PROJECT_PORT, to |-> BASE_PROJECT_PORT],
     [from |-> 0, to |-> U16_MAX]}

InitOrch ==
    /\ TokenIdle /\ GateIdle /\ WorkerIdle /\ MonitorIdle /\ JoinIdle
    /\ sigNow = SigEpochStart
    /\ servers = [id \in {"local", WorkerServerId} |->
                    IF id = "local" THEN "keyL" ELSE WorkerSecret]
    /\ sigLast = NoSigCall
    /\ build = "release"
    /\ projects = {}
    /\ creating = [c \in Connections |-> IdleRequest]
    /\ base_domain \in {None, Some("example.com")}
    /\ portsBound \in BoundRanges
    /\ managing = IdleRequest
    /\ monitored_projects = << >>

NextOrch ==
    \/ \E c \in Connections : \E payload \in PayloadsOf(c) : CreateProjectBegin(c, payload)
    \/ \E c \in Connections, probeOk \in BOOLEAN : CreateProjectPort(c, probeOk)
    \/ \E c \in Connections, dbOk \in BOOLEAN : CreateProjectInsert(c, dbOk)
    \/ \E c \in Connections, env \in DeployEnvs, transportOk \in BOOLEAN, deleteOk \in BOOLEAN,
          github \in GithubOutcomes :
          CreateProjectDeploy(c, env, transportOk, deleteOk, github)
    \/ \E c \in Connections : CreateProjectRespond(c)

SpecOrch == InitOrch /\ [][NextOrch]_vars

\* The ids of delete-project and redeploy requests: the one create_project
\* gives its project and one no project has.
ManagedIds == {NewProjectId(1), "zz"}

\* An orchestrator with one connection that creates projects and one that
\* deletes or redeploys a project.
InitManage ==
    /\ TokenIdle /\ GateIdle /\ WorkerIdle /\ MonitorIdle /\ JoinIdle
    /\ sigNow = SigEpochStart
    /\ servers = [id \in {"local", WorkerServerId} |->
                    IF id = "local" THEN "keyL" ELSE WorkerSecret]
    /\ sigLast = NoSigCall
    /\ build = "release"
    /\ projects = {}
    /\ creating = [c \in Connections |-> IdleRequest]
    /\ base_domain \in {None, Some("example.com")}
    /\ portsBound = [from |-> 1, to |-> 0]
    /\ managing = IdleRequest
    /\ monitored_projects = << >>

NextManage ==
    \/ \E payload \in PayloadsOf(2) : CreateProjectBegin(1, payload)
    \/ \E probeOk \in BOOLEAN : CreateProjectPort(1, probeOk)
    \/ \E dbOk \in BOOLEAN : CreateProjectInsert(1, dbOk)
    \/ \E env \in DeployEnvs, transportOk \in BOOLEAN, deleteOk \in BOOLEAN,
          github \in GithubOutcomes :
          CreateProjectDeploy(1, env, transportOk, deleteOk, github)
    \/ CreateProjectRespond(1)
    \/ \E id \in ManagedIds, envT \in TeardownEnvs, envC \in DeployEnvs,
          deleteSent \in BOOLEAN, createSent \in BOOLEAN :
          RedeployProjectById(id, envT, envC, deleteSent, createSent)
    \/ \E id \in ManagedIds, env \in TeardownEnvs, sent \in BOOLEAN, dbOk \in BOOLEAN :
          DeleteProject(id, env, sent, dbOk)

SpecManage == InitManage /\ [][NextManage]_vars

\* The rows that earlier create-project requests left in the table: one of a
\* project named as the new one, and one whose own name gives it the domain
\* that the new project's id-suffixed candidate is.
EarlierRows ==
    {Row("p1", BASE_PROJECT_PORT, Some("my-app.example.com"), OrchPayload),
     Row("p2", BASE_PROJECT_PORT + 1, Some("my-app-" \o NewProjectId(1) \o ".example.com"),
         [OrchPayload EXCEPT !.name = "My App " \o NewProjectId(1)])}

\* An orchestrator whose table holds rows of earlier projects and one
\* connection that creates a project.
InitAssign ==
    /\ TokenIdle /\ GateIdle /\ WorkerIdle /\ MonitorIdle /\ JoinIdle
    /\ sigNow = SigEpochStart
    /\ servers = [id \in {"local", WorkerServerId} |->
                    IF id = "local" THEN "keyL" ELSE WorkerSecret]
    /\ sigLast = NoSigCall
    /\ build = "release"
    /\ projects \in SUBSET EarlierRows
    /\ creating = [c \in Connections |-> IdleRequest]
    /\ base_domain \in {None, Some("example.com")}
    /\ portsBound = [from |-> 1, to |-> 0]
    /\ managing = IdleRequest
    /\ monitored_projects = << >>

NextAssign ==
    \/ \E payload \in PayloadsOf(1) : CreateProjectBegin(1, payload)
    \/ \E probeOk \in BOOLEAN : CreateProjectPort(1, probeOk)
    \/ \E dbOk \in BOOLEAN : CreateProjectInsert(1, dbOk)
    \/ \E env \in DeployEnvs, transportOk \in BOOLEAN, deleteOk \in BOOLEAN,
          github \in GithubOutcomes :
          CreateProjectDeploy(1, env, transportOk, deleteOk, github)
    \/ CreateProjectRespond(1)

SpecAssign == InitAssign /\ [][NextAssign]_vars

\* What the readings of a tick can be: all succeed, or systemctl show of the
\* ActiveState, /proc/uptime or the socket's NConnections fails.
Readings ==
    {[activeOk |-> TRUE, uptimeOk |-> TRUE, nconnOk |-> TRUE],
     [activeOk |-> FALSE, uptimeOk |-> TRUE, nconnOk |-> TRUE],
     [activeOk |-> TRUE, uptimeOk |-> FALSE, nconnOk |-> TRUE],
     [activeOk |-> TRUE, uptimeOk |-> TRUE, nconnOk |-> FALSE]}

\* A worker whose monitored set holds one project, deployed and started.
InitMonitor ==
    /\ OrchIdle /\ TokenIdle /\ SigIdle /\ GateIdle /\ JoinIdle
    /\ wfs = << >> /\ wusers = {} /\ wenabled = {} /\ wactive = {}
    /\ wLast = NoRun /\ wPrev = ""
    /\ \E flag \in BOOLEAN :
          monitored = <<[service_name |-> UnitName("a1"), port |-> 3100,
                         scale_to_zero |-> flag]>>
    /\ traffic_state = NoTraffic
    /\ uptime = UptimeStart
    /\ svc = [active |-> TRUE, nconnections |-> 0]
    /\ observed = [since |-> UptimeStart, changed |-> 0, run |-> 0]
    /\ monLast = NoTick

NextMonitor ==
    \/ \E rd \in Readings, stopOk \in BOOLEAN : MonitorTick(rd, stopOk)
    \/ Connect

SpecMonitor == InitMonitor /\ [][NextMonitor]_vars

\* A worker on which project a1 was deployed and started when the monitor
\* starts, and which deletes and deploys it again while the monitor runs.
InitRedeployed ==
    /\ OrchIdle /\ TokenIdle /\ SigIdle /\ GateIdle /\ JoinIdle
    /\ wfs = << >> /\ wusers = {} /\ wenabled = {} /\ wactive = {}
    /\ wLast = NoRun /\ wPrev = ""
    /\ monitored = <<[service_name |-> UnitName("a1"), port |-> BASE_PROJECT_PORT,
                      scale_to_zero |-> TRUE]>>
    /\ traffic_state = NoTraffic
    /\ uptime = UptimeStart
    /\ svc = [name \in MonitoredUnits |->
                [active |-> name = UnitName("a1"), nconnections |-> 0]]
    /\ observed = [name \in MonitoredUnits |->
                     [deployed |-> name = UnitName("a1"), since |-> UptimeStart]]
    /\ monLast = NoLoopTick

NextRedeployed ==
    \/ \E rd \in Readings, stopOk \in BOOLEAN :
          MonitorLoopTick([name \in MonitoredUnits |-> rd],
                          [name \in MonitoredUnits |-> stopOk])
    \/ ConnectTo(UnitName("a1"))
    \/ MonitorDeployed("a1")
    \/ MonitorDeleted("a1")

SpecRedeployed == InitRedeployed /\ [][NextRedeployed]_vars

\* A worker whose monitored list holds two deployed projects, both started.
InitFleet ==
    /\ OrchIdle /\ TokenIdle /\ SigIdle /\ GateIdle /\ JoinIdle
    /\ wfs = << >> /\ wusers = {} /\ wenabled = {} /\ wactive = {}
    /\ wLast = NoRun /\ wPrev = ""
    /\ \E flag \in BOOLEAN :
          monitored = <<[service_name |-> UnitName("a1"), port |-> BASE_PROJECT_PORT,
                         scale_to_zero |-> TRUE],
                        [service_name |-> UnitName("b2"), port |-> BASE_PROJECT_PORT + 1,
                         scale_to_zero |-> flag]>>
    /\ traffic_state = NoTraffic
    /\ uptime = UptimeStart
    /\ svc = [name \in MonitoredUnits |-> [active |-> TRUE, nconnections |-> 0]]
    /\ observed = [name \in MonitoredUnits |-> [deployed |-> TRUE, since |-> UptimeStart]]
    /\ monLast = NoLoopTick

\* The interval of the monitor fires. The readings and the stop of the first
\* service of the list may fail, those of the other succeed.
FleetTick ==
    \E rd \in Readings, stopOk \in BOOLEAN :
        MonitorLoopTick([name \in MonitoredUnits |->
                           IF name = UnitName("a1") THEN rd
                           ELSE [activeOk |-> TRUE, uptimeOk |-> TRUE, nconnOk |-> TRUE]],
                        [name \in MonitoredUnits |-> name # UnitName("a1") \/ stopOk])

\* tokio::time::interval fires every INACTIVITY_INTERVAL_SECONDS for as long as
\* the task runs: the tick is taken whenever it stays possible. No client
\* connects: a connection changes the socket counter, after which the service
\* is no longer one whose counter stays unchanged.
SpecFleetFair == InitFleet /\ [][FleetTick]_vars /\ WF_vars(FleetTick)

----------------------------------------------------------------------------
(* claims *)

\* C1: each token value makes consume_valid_token return true at most once,
\* never at or after 600 s past its generation, and a value that was never
\* generated never returns true.
C1_TokenOnceAndFresh ==
    \A v \in TokenValues :
        /\ consumeCount[v] <= 1
        /\ v \notin DOMAIN generated => consumeCount[v] = 0
        /\ \A t \in consumeTrue[v] :
              v \in DOMAIN generated /\ t < generated[v] + TOKEN_TTL_SECONDS

\* A token was consumed successfully less than 600 s after its generation and a
\* later consume of the same value returned false.
C1_Witness ==
    /\ lastConsume.called
    /\ ~lastConsume.result
    /\ consumeCount[lastConsume.token] = 1
    /\ \E t \in consumeTrue[lastConsume.token] :
          t = generated[lastConsume.token] + TOKEN_TTL_SECONDS - 1

\* C2: for a request with the three headers and a known server id (the secret
\* lookup succeeding), the middleware passes the request to the handler if and
\* only if the signature equals hex(HMAC-SHA256(secret, body then timestamp text))
\* and now - timestamp <= 30 s; a timestamp in the future is accepted.
\* The claim is read in the code's favour: hex digits are compared without
\* regard to case, and bodies are within the 1 MiB the middleware reads.
C2_AcceptIff ==
    (/\ sigLast.called
     /\ ClusterHeaders \subseteq sigLast.req.headers
     /\ sigLast.known
     /\ sigLast.dbOk
     /\ BodyLen(sigLast.req.body) <= MAX_BODY_BYTES)
    => LET req == sigLast.req
           parsed == ParseI64(req.timestamp)
           decoded == HexDecode(req.signature)
           mac == HmacSha256(sigLast.secret, MacInput(req.body, req.timestamp))
       IN  (sigLast.outcome = "next")
             <=> (/\ decoded.ok
                  /\ decoded.bytes = mac
                  /\ parsed.ok
                  /\ sigLast.at - parsed.value <= MAX_TIMESTAMP_AGE_SECONDS)

\* C3 (as claimed): a worker handler runs only for a request that carries the
\* three cluster headers with a fresh timestamp and the signature of its body
\* under the worker's secret; no pipeline and no teardown is started otherwise.
C3_HandlersSignatureGuarded ==
    (wLast.called /\ wLast.ran) => ValidlySigned(wLast.req, sigNow, build)

\* C4 (as claimed): every (binary, args) pair a run of the pipeline or of the
\* teardown hands to the gate is accepted by the validator of that binary.
C4_CallSitesAccepted ==
    wLast.called =>
        \A i \in 1..Len(wLast.calls) :
            /\ wLast.calls[i].binary \in AllowedBinaries
            /\ ValidateCommandArgs(wLast.calls[i].binary, wLast.calls[i].args)

\* C5: PrivilegeWrapper::run spawns the elevated command exactly when the binary
\* is one of the nine allowlisted paths and the arguments pass that binary's
\* validator; otherwise it returns an error and spawns nothing. A spawned
\* command's exit status decides the result.
C5_GateSpawnsOnlyValidated ==
    /\ Cardinality(AllowedBinaries) = 9
    /\ gateLast.called =>
         LET allowed == /\ gateLast.binary \in AllowedBinaries
                        /\ ValidateCommandArgs(gateLast.binary, gateLast.args)
         IN  /\ gateLast.result.spawned <=> allowed
             /\ ~allowed => ~gateLast.result.ok
             /\ allowed => (gateLast.result.ok <=> gateLast.exitOk)

\* A rejected call: an allowlisted binary with arguments its validator refuses
\* came back as an error with nothing spawned.
C5_Witness ==
    /\ gateLast.called
    /\ gateLast.binary = RM_BIN
    /\ gateLast.args = <<"-rf", "/">>
    /\ gateLast.exitOk
    /\ ~gateLast.result.spawned
    /\ ~gateLast.result.ok

\* The artifacts of a project id on the worker.
C9_Present(id) ==
    <<ServiceName(id) \in wusers,
      Exists(wfs, DestinationDir(id)),
      Exists(wfs, UnitTarget(id, ".service")),
      Exists(wfs, UnitTarget(id, ".socket")),
      Exists(wfs, UnitTarget(id, "-proxy.service")),
      Exists(wfs, SiteConf(id))>>

\* C9 (as claimed): whenever no pipeline and no teardown is running, each
\* project id is either complete on the worker (user, live source directory,
\* service, socket and proxy units, site config) or fully torn down.
C9_CompleteOrTornDown ==
    ~wLast.called =>
        \A id \in ProjectIds :
            \/ C9_Present(id) = <<TRUE, TRUE, TRUE, TRUE, TRUE, TRUE>>
            \/ C9_Present(id) = <<FALSE, FALSE, FALSE, FALSE, FALSE, FALSE>>

\* C6 (as claimed): every port P that create_project stores in a project row
\* is at least 3100, has a backend port P + 10000 within 65535, and was found
\* unused in the table and reported available by the worker's ports/check
\* during the request.
C6_StoredPortChecked ==
    \A c \in Connections :
        (creating[c].pc # "idle" /\ creating[c].inserted) =>
            /\ creating[c].port >= BASE_PROJECT_PORT
            /\ creating[c].port + BACKEND_PORT_OFFSET <= U16_MAX
            /\ creating[c].probed

\* C7 (as claimed): in every state of the projects table, whatever the
\* interleaving of the create_project requests, no two rows have the same port
\* and no two rows have the same non-null domain.
C7_UniquePortAndDomain ==
    \A r1 \in projects : \A r2 \in projects :
        r1.id # r2.id =>
            /\ r1.port # r2.port
            /\ ~(r1.domain.some /\ r2.domain.some /\ r1.domain.value = r2.domain.value)

\* The request of connection c inserted its row and its signed call of the
\* worker's create-project failed: no answer, or an answer that is not 2xx.
C8_WorkerCallFailed(c) ==
    /\ creating[c].pc \in {"done", "responded"}
    /\ creating[c].inserted
    /\ creating[c].workerCalled
    /\ ~creating[c].workerOk

\* C8 (as claimed): when the row was inserted and the worker call then fails,
\* create_project returns bad-gateway and the row is gone, so that a later
\* listing does not contain the project.
C8_RowDeletedOnWorkerFailure ==
    \A c \in Connections :
        C8_WorkerCallFailed(c) =>
            /\ creating[c].status = "bad_gateway"
            /\ ~\E r \in projects : r.id = creating[c].id

\* C8 (amended): when the row was inserted and the worker call then fails,
\* create_project returns bad-gateway after issuing the delete of that row,
\* whose result it ignores; the row is gone whenever that delete succeeds.
C8_CompensationIssued ==
    \A c \in Connections :
        C8_WorkerCallFailed(c) =>
            /\ creating[c].status = "bad_gateway"
            /\ creating[c].deleteOk => ~\E r \in projects : r.id = creating[c].id

\* A request whose call never reached the worker was answered bad-gateway and
\* its row is gone, while the other request's row is still in the table.
C8_Witness ==
    /\ creating[1].pc = "responded"
    /\ C8_WorkerCallFailed(1)
    /\ ~creating[1].transportOk
    /\ creating[1].deleteOk
    /\ creating[1].status = "bad_gateway"
    /\ ~\E r \in projects : r.id = creating[1].id
    /\ \E r \in projects : r.id = creating[2].id

\* C10 (as claimed): a valid request to a server without a base domain, all of
\* whose commands exit with success, ends with the orchestrator returning the
\* id with a null domain, the three units under /etc/systemd/system and the
\* service and socket enabled, and an HTTP-only site config in sites-enabled.
C10_HappyPathDeploys ==
    \A c \in Connections :
        (/\ creating[c].pc \in {"done", "responded"}
         /\ creating[c].workerCalled
         /\ creating[c].port + BACKEND_PORT_OFFSET <= U16_MAX
         /\ base_domain = None
         /\ creating[c].env = Quiet
         /\ creating[c].transportOk) =>
            /\ creating[c].status = "ok"
            /\ creating[c].domain = None
            /\ \A suffix \in {".service", ".socket", "-proxy.service"} :
                  Exists(wfs, UnitTarget(creating[c].id, suffix))
            /\ {ServiceName(creating[c].id) \o ".service",
                ServiceName(creating[c].id) \o ".socket"} \subseteq wenabled
            /\ Exists(wfs, SiteConf(creating[c].id))
            /\ wfs[SiteConf(creating[c].id)].kind = "http"

\* The stages of a pipeline run in the order the claim lists them, each with
\* the statements that make it up.
C11_Order ==
    <<Step("clone", "repo-url", ""), Step("clone", "branch", ""),
      Step("clone", "mkdir", ""), Step("clone", "git-clone", ""),
      Step("clone", "git-checkout", ""),
      Step("build", "swap", ""), Step("build", "install", ""), Step("build", "build", ""),
      Step("build", "output-dir", ""), Step("build", "replace", ""),
      Step("build", "copy", ""), Step("build", "bun", ""),
      Step("build", "useradd", ""), Step("build", "id-gn", ""),
      Step("build", "chown-artifact", ""),
      Step("systemd", "backend-port", ""), Step("systemd", "socket-proxyd", ""),
      Step("systemd", "run-command", ""), Step("systemd", "write-units", ""),
      Step("systemd", "mv-service", ""), Step("systemd", "mv-socket", ""),
      Step("systemd", "mv-proxy", ""), Step("systemd", "chown-service", ""),
      Step("systemd", "chown-socket", ""), Step("systemd", "chown-proxy", ""),
      Step("systemd", "daemon-reload", ""), Step("systemd", "enable-service", ""),
      Step("systemd", "enable-socket", ""),
      Step("nginx", "write-conf", "http"), Step("nginx", "mv-conf", "http"),
      Step("nginx", "nginx-reload", "http"),
      Step("tls", "tls-domain-empty", ""), Step("tls", "tls-email-empty", ""),
      Step("tls", "acme-webroot", ""), Step("tls", "certbot", ""),
      Step("nginx", "write-conf", "https"), Step("nginx", "mv-conf", "https"),
      Step("nginx", "nginx-reload", "https")>>

\* C11: in every pipeline run the statements executed are the first ones of the
\* listed order (validate, clone, checkout, install, build, copy, runtime, user
\* and chown, unit install, daemon-reload, enable service, enable socket, HTTP
\* site and reload, ACME, HTTPS site and reload), each one started only after
\* every earlier one returned Ok; a failed statement is the last one of its run.
C11_StagesInOrder ==
    (wLast.called /\ wLast.route = "create-project" /\ wLast.ran) =>
        /\ Len(wLast.steps) <= Len(C11_Order)
        /\ \A i \in 1..Len(wLast.steps) :
              /\ wLast.steps[i].step = C11_Order[i]
              /\ i < Len(wLast.steps) => wLast.steps[i].ok

\* A run whose unit install failed at the move of the socket unit: the service
\* unit had been moved and nothing ran after the failure.
C11_Witness ==
    /\ wLast.called /\ wLast.route = "create-project" /\ wLast.ran
    /\ Len(wLast.steps) = 21
    /\ wLast.steps[21].step = Step("systemd", "mv-socket", "")
    /\ ~wLast.steps[21].ok
    /\ wLast.steps[20].ok
    /\ wLast.status = "bad_request"

\* C12: with every command succeeding, Teardown::delete_project succeeds; run
\* again right after a successful run on the same id it succeeds and leaves the
\* files, users and units as the first run left them; run on an id of which
\* nothing exists it succeeds and changes nothing.
C12_TeardownIdempotent ==
    (wLast.called /\ wLast.route = "delete-project" /\ wLast.ran /\ wLast.quiet) =>
        /\ wLast.status = "no_content"
        /\ (wPrev = wLast.id \/ wLast.absent) => ~wLast.changed

\* A second teardown right after a successful one of a partly deployed project:
\* it succeeded, changed nothing, and the first had left something of the id.
C12_Witness ==
    /\ wLast.called /\ wLast.route = "delete-project" /\ wLast.ran /\ wLast.quiet
    /\ wPrev = wLast.id
    /\ wLast.status = "no_content"
    /\ ~wLast.changed
    /\ ~wLast.absent

\* C13 (as claimed): after a successful teardown of a project the pipeline had
\* installed, none of its artefacts remains: the service, socket and proxy
\* units, the wants links, the site file, /opt/nanoscale/sites/<id>,
\* /opt/nanoscale/tmp/<id> and the system user are absent.
C13_TeardownInvertsPipeline ==
    (/\ wLast.called /\ wLast.route = "delete-project" /\ wLast.ran
     /\ wLast.status = "no_content") =>
        /\ \A path \in {UnitTarget(wLast.id, ".service"), UnitTarget(wLast.id, ".socket"),
                        UnitTarget(wLast.id, "-proxy.service"),
                        WantsLink(ServiceName(wLast.id) \o ".service"),
                        WantsLink(ServiceName(wLast.id) \o ".socket"),
                        SiteConf(wLast.id),
                        SOURCE_BASE_PATH \o "/" \o wLast.id,
                        TMP_BASE_PATH \o "/" \o wLast.id} :
              ~Exists(wfs, path)
        /\ ServiceName(wLast.id) \notin wusers

\* C14: on a monitor tick, systemctl stop is issued for a monitored service only
\* if scale_to_zero is set, the service reports ActiveState active, uptime and
\* the socket's NConnections were read, NConnections equals the stored counter
\* and more than 900 seconds of uptime have passed since the last tick at which
\* the counter changed or the service was first observed; a tick at which the
\* counter differs from the stored one updates the counter and the activity
\* time and does not stop the service.
C14_StopOnlyWhenIdle ==
    monLast.ticked =>
        /\ monLast.stopCalled =>
              /\ monLast.project.scale_to_zero
              /\ monLast.wasActive
              /\ monLast.rd.activeOk /\ monLast.rd.uptimeOk /\ monLast.rd.nconnOk
              /\ monLast.project.service_name \in DOMAIN monLast.stored
              /\ monLast.stored[monLast.project.service_name].last_nconnections
                    = monLast.nconnections
              /\ monLast.now - observed.changed > 900
        /\ (/\ monLast.compared
            /\ monLast.project.service_name \in DOMAIN monLast.stored
            /\ monLast.stored[monLast.project.service_name].last_nconnections
                  # monLast.nconnections) =>
              /\ ~monLast.stopCalled
              /\ traffic_state[monLast.project.service_name]
                    = [last_nconnections |-> monLast.nconnections,
                       last_activity_uptime_seconds |-> monLast.now]

\* A tick that stopped the service, after a tick that saw the counter change.
C14_Witness ==
    /\ monLast.stopCalled
    /\ monLast.stopSpawned
    /\ monLast.nconnections > 0
    /\ ~svc.active

C16_TakenPortConflicts ==
    \A c \in Connections :
        (creating[c].pc \notin {"idle", "port"} /\ creating[c].taken) =>
            /\ creating[c].pc \in {"done", "responded"}
            /\ creating[c].status = "conflict"
            /\ ~creating[c].inserted
            /\ ~creating[c].workerCalled
            /\ ~\E row \in projects : row.id = creating[c].id

\* A request for the port of an existing row has been answered.
C16_Witness ==
    \E c \in Connections :
        /\ creating[c].pc = "responded"
        /\ creating[c].taken
        /\ \E row \in projects : row.port = creating[c].payload.port.value

\* C17: when create-project allocates a port itself and each of the 100
\* candidate ports is either already in a project row or reported unbindable
\* by the worker, the request fails with conflict, no project row is inserted
\* and no worker create-project call is made.
C17_NoPortAfterHundredCandidates ==
    \A c \in Connections :
        (creating[c].pc \notin {"idle", "port"} /\ creating[c].exhausted) =>
            /\ creating[c].pc \in {"done", "responded"}
            /\ creating[c].status = "conflict"
            /\ ~creating[c].inserted
            /\ ~creating[c].workerCalled

\* A redeploy request is handled in this step.
C18_Redeployed ==
    managing.pc = "idle" /\ managing'.pc = "done" /\ managing'.op = "redeploy"

\* C18: redeploy sends the worker teardown first and sends create-project only
\* after the teardown call succeeded, carrying the stored id, port, domain,
\* repo URL, branch and commands of the project; if the teardown call fails no
\* create-project is sent and bad-gateway is returned; an unknown project id
\* returns not-found with no worker call.
C18_RedeployTeardownThenCreate ==
    [][C18_Redeployed =>
          IF ~\E row \in projects : row.id = managing'.id
            THEN managing'.status = "not_found" /\ managing'.calls = << >>
            ELSE /\ Len(managing'.calls) \in {1, 2}
                 /\ managing'.calls[1].route = "delete-project"
                 /\ managing'.calls[1].id = managing'.id
                 /\ ~managing'.calls[1].ok =>
                       /\ Len(managing'.calls) = 1
                       /\ managing'.status = "bad_gateway"
                 /\ managing'.calls[1].ok =>
                       /\ Len(managing'.calls) = 2
                       /\ managing'.calls[2].route = "create-project"
                       /\ \E row \in projects :
                             /\ row.id = managing'.id
                             /\ managing'.calls[2].payload.project_id = row.id
                             /\ managing'.calls[2].payload.port = row.port
                             /\ managing'.calls[2].payload.domain = row.domain
                             /\ managing'.calls[2].payload.repo_url = row.repo_url
                             /\ managing'.calls[2].payload.branch = row.branch
                             /\ managing'.calls[2].payload.install_command
                                   = row.install_command
                             /\ managing'.calls[2].payload.build_command
                                   = row.build_command
                             /\ managing'.calls[2].payload.run_command
                                   = row.start_command]_vars

\* A redeploy whose teardown removed what an earlier run had left on the worker
\* and whose create-project was then sent.
C18_Witness ==
    /\ managing.pc = "done"
    /\ managing.op = "redeploy"
    /\ Len(managing.calls) = 2
    /\ managing.calls[1].ok
    /\ managing.calls[2].payload.port >= BASE_PROJECT_PORT
    /\ Exists(wfs, UnitTarget(managing.id, ".service"))

\* A delete-project request is handled in this step.
C19_Deleted ==
    managing.pc = "idle" /\ managing'.pc = "done" /\ managing'.op = "delete"

C20_TlsFailureNotFatal ==
    (wLast.called /\ wLast.route = "create-project" /\ wLast.ran) =>
        /\ (\E i \in 1..Len(wLast.steps) :
               wLast.steps[i].step.fn = "tls" /\ ~wLast.steps[i].ok) =>
              /\ wLast.status = "accepted"
              /\ Exists(wfs, SiteConf(wLast.id))
              /\ wfs[SiteConf(wLast.id)].kind = "http"
              /\ \E i \in 1..Len(monitored) : monitored[i].service_name = UnitName(wLast.id)
              /\ wLast.tls = "TLS provisioning failed"
        /\ ~wLast.acme =>
              /\ ~\E i \in 1..Len(wLast.steps) : wLast.steps[i].step.fn = "tls"
              /\ wLast.quiet =>
                    /\ wLast.status = "accepted"
                    /\ StartsWith(wLast.tls, "TLS skipped")

\* A join_cluster request is handled in this step.
C21_Joined == joinLast'.n = joinLast.n + 1

\* The token of the request was generated, has not been consumed and has not
\* expired when the request arrives.
C21_TokenValid ==
    /\ joinLast'.token \in DOMAIN generated
    /\ consumeCount[joinLast'.token] = 0
    /\ now < generated[joinLast'.token] + TOKEN_TTL_SECONDS

\* The step adds exactly the row of the returned id, holding the supplied secret.
C21_OneRowInserted ==
    /\ joinLast'.status = "ok"
    /\ joinLast'.server_id \notin DOMAIN servers
    /\ DOMAIN servers' = DOMAIN servers \cup {joinLast'.server_id}
    /\ servers'[joinLast'.server_id] = joinLast'.secret_key
    /\ \A id \in DOMAIN servers : servers'[id] = servers[id]

\* C21 as stated: join_cluster with a generated, unconsumed, unexpired token
\* inserts exactly one server row holding the supplied secret_key and returns
\* its new server id; with any other token it returns unauthorized and inserts
\* no server row; the server rows created by joins never outnumber the tokens
\* generated.
C21_JoinInsertsOneRow ==
    /\ [][C21_Joined =>
             IF C21_TokenValid THEN C21_OneRowInserted
             ELSE joinLast'.status = "unauthorized" /\ servers' = servers]_vars
    /\ [](Cardinality(joinRows) <= Cardinality(DOMAIN generated))

\* C21 amended: join_cluster with a generated, unconsumed, unexpired token
\* consumes the token and, when insert_server succeeds, inserts exactly one
\* server row holding the supplied secret_key and returns its new server id;
\* when insert_server fails it returns internal-error and inserts no row; with
\* any other token it returns unauthorized and inserts no server row; the
\* server rows created by joins never outnumber the tokens generated.
C21_JoinInsertsOneRowUnlessInsertFails ==
    /\ [][C21_Joined =>
             /\ joinLast'.token \notin DOMAIN tokens'
             /\ IF C21_TokenValid /\ joinLast'.dbOk THEN C21_OneRowInserted
                ELSE IF C21_TokenValid
                  THEN joinLast'.status = "internal_error" /\ servers' = servers
                ELSE joinLast'.status = "unauthorized" /\ servers' = servers]_vars
    /\ [](Cardinality(joinRows) <= Cardinality(DOMAIN generated))

\* A join with a fresh token inserted its row, and a second join with the same
\* token was refused.
C21_Witness ==
    /\ joinLast.n = 2
    /\ joinLast.status = "unauthorized"
    /\ joinLast.token \in DOMAIN generated
    /\ consumeCount[joinLast.token] = 1
    /\ Cardinality(joinRows) = 1
    /\ \E id \in joinRows : servers[id] \in {"keyA", "keyB"}

\* What the checks of the claim, applied in its order, give for the last request.
C22_Expected ==
    LET r == sigLast.req
        parsed == ParseI64(r.timestamp)
        decoded == HexDecode(r.signature)
    IN  IF ~(ClusterHeaders \subseteq r.headers) THEN "unauthorized"
        ELSE IF ~parsed.ok \/ sigLast.at - parsed.value > MAX_TIMESTAMP_AGE_SECONDS
          THEN "unauthorized"
        ELSE IF BodyLen(r.body) > MAX_BODY_BYTES THEN "bad_request"
        ELSE IF ~sigLast.known THEN "unauthorized"
        ELSE IF ~decoded.ok
                  \/ decoded.bytes # HmacSha256(sigLast.secret, MacInput(r.body, r.timestamp))
          THEN "unauthorized"
        ELSE "next"

\* C22: the signature middleware applies its checks in the order: three headers
\* present, timestamp parses and is fresh, body at most 1 MiB, server secret
\* found, HMAC matches; the first failing check decides the result
\* (unauthorized, or bad-request for an oversized body), and on every rejection
\* the guarded handler is not invoked. Requests whose secret lookup fails in
\* the database are left aside.
C22_ChecksInOrder ==
    (sigLast.called /\ sigLast.dbOk) => sigLast.outcome = C22_Expected

\* The entries of a monitored list for the service of a project id.
C23_Entries(list, id) == {i \in 1..Len(list) : list[i].service_name = UnitName(id)}

\* The worker answers a create-project or delete-project call in this step.
C23_Handled ==
    ~wLast.called /\ wLast'.called /\ wLast'.route \in {"create-project", "delete-project"}

C24_LabelChars == "abcdefghijklmnopqrstuvwxyz0123456789-"

C24_HexChars == "0123456789abcdef"

\* The first label of a domain under the base domain ("" when it is not one).
C24_Label(domain, base) ==
    IF EndsWith(domain, "." \o base)
      THEN SubSeq(domain, 1, Len(domain) - Len(base) - 1)
      ELSE ""

\* C24: with a base domain configured, the domain assigned to a project name
\* and a project id is <label>.<base>, the label made of a-z, 0-9 and '-', at
\* most 63 characters long, not empty and not ending with '-'; when the plain
\* domain is in use the label ends with '-' and the first six hexadecimal
\* digits of the id.
C24_DomainWellFormed ==
    (/\ pureLast.fn = "assigned_project_domain"
     /\ pureLast.base.some
     /\ pureLast.result.domain.some)
    => \E label \in {C24_Label(pureLast.result.domain.value, pureLast.base.value)} :
          /\ label # ""
          /\ Len(label) <= 63
          /\ \A i \in 1..Len(label) : Contains(C24_LabelChars, Char(label, i))
          /\ Char(label, Len(label)) # "-"
          /\ pureLast.rows # {} =>
               /\ Len(label) >= 8
               /\ SubSeq(label, Len(label) - 6, Len(label))
                    = "-" \o SubSeq(pureLast.id, 1, 6)
               /\ \A i \in 1..6 : Contains(C24_HexChars, Char(pureLast.id, i))

\* A name longer than a label is assigned the id-suffixed domain, whose label
\* is 63 characters long.
C24_Witness ==
    /\ pureLast.fn = "assigned_project_domain"
    /\ Len(pureLast.name) > 63
    /\ pureLast.rows # {}
    /\ pureLast.result.domain.some
    /\ Len(C24_Label(pureLast.result.domain.value, pureLast.base.value)) = 63

\* The plain and the id-suffixed candidate of create_project's request.
C25_Plain(req) ==
    TruncateDnsLabel(SlugifyProjectName(req.payload.name).value) \o "." \o base_domain.value

C25_Suffixed(req) ==
    TrimLabelForSuffix(TruncateDnsLabel(SlugifyProjectName(req.payload.name).value),
                       Len(Take(req.id, SUFFIX_LEN)))
      \o "-" \o Take(req.id, SUFFIX_LEN) \o "." \o base_domain.value

\* create_project assigns request c its domain in this step.
C25_Assigns(c) ==
    /\ creating[c].pc = "idle"
    /\ creating'[c].pc # "idle"
    /\ creating'[c].status \notin {"bad_request", "forbidden", "not_found"}

\* C25: create_project assigns the plain candidate when no row has it,
\* otherwise the id-suffixed candidate when no row has it, otherwise it answers
\* conflict and neither inserts a row nor calls the worker; the assigned domain
\* is in no row when it is assigned, and is null without a base domain.
C25_AssignsFreeDomain ==
    /\ [][\A c \in Connections : C25_Assigns(c) =>
            IF ~base_domain.some THEN creating'[c].domain = None
            ELSE /\ creating'[c].domain.some =>
                      ~IsProjectDomainInUse(projects, creating'[c].domain.value)
                 /\ IF ~IsProjectDomainInUse(projects, C25_Plain(creating'[c]))
                      THEN creating'[c].domain = Some(C25_Plain(creating'[c]))
                    ELSE IF ~IsProjectDomainInUse(projects, C25_Suffixed(creating'[c]))
                      THEN creating'[c].domain = Some(C25_Suffixed(creating'[c]))
                    ELSE /\ creating'[c].status = "conflict"
                         /\ creating'[c].pc = "done"
                         /\ creating'[c].domain = None
                         /\ projects' = projects]_vars
    /\ [](\A c \in Connections :
            (creating[c].pc \in {"done", "responded"} /\ creating[c].status = "conflict")
               => ~creating[c].inserted /\ ~creating[c].workerCalled)

\* The plain candidate is in a row, and the request's row is inserted with
\* the id-suffixed one.
C25_Witness ==
    /\ base_domain.some
    /\ creating[1].pc = "deploy"
    /\ creating[1].domain = Some("my-app-" \o NewProjectId(1) \o ".example.com")
    /\ IsProjectDomainInUse(projects \ {r \in projects : r.id = NewProjectId(1)},
                            "my-app.example.com")

C26_White == {" ", "\t", "\n", "\r"}

\* The places of s where a token starts, and the token that starts at place i.
C26_Starts(s) ==
    {i \in 1..Len(s) : Char(s, i) \notin C26_White
                         /\ (i = 1 \/ Char(s, i - 1) \in C26_White)}

C26_TokenAt(s, i) ==
    SubSeq(s, i, CHOOSE j \in i..Len(s) :
                    /\ \A k \in i..j : Char(s, k) \notin C26_White
                    /\ (j = Len(s) \/ Char(s, j + 1) \in C26_White))

\* result is Ok with the first token of s as the program and the other tokens,
\* in order, as the arguments.
C26_Tokenised(s, result) ==
    /\ result.ok
    /\ Len(result.arguments) = Cardinality(C26_Starts(s)) - 1
    /\ \A i \in C26_Starts(s) :
          \E n \in {Cardinality({j \in C26_Starts(s) : j < i})} :
              C26_TokenAt(s, i) = IF n = 0 THEN result.program ELSE result.arguments[n]

C26_Inner(s) ==
    IF C26_Starts(s) = {} THEN ""
    ELSE SubSeq(s, CHOOSE i \in C26_Starts(s) : \A j \in C26_Starts(s) : i <= j,
                CHOOSE i \in 1..Len(s) :
                    /\ Char(s, i) \notin C26_White
                    /\ \A j \in (i + 1)..Len(s) : Char(s, j) \in C26_White)

C27_UnitFiles(id, suffix) ==
    {wfs[path] : path \in {TmpUnit(id, suffix), UnitTarget(id, suffix)} \cap DOMAIN wfs}

\* The site files of a project on the host.
C27_SiteFiles(id) ==
    {wfs[path] : path \in {TMP_BASE_PATH \o "/" \o ServiceName(id) \o ".enabled.conf",
                           SiteConf(id)} \cap DOMAIN wfs}

\* The site file that NginxGenerator writes for a request.
C27_SiteFileOf(req, tls) ==
    NginxStep(Host, "write-conf", tls, req, Quiet).change.fs[
        TMP_BASE_PATH \o "/" \o ServiceName(req.project_id) \o ".enabled.conf"]

\* The unit installer ran in the last create-project run.
C27_InstallerRan ==
    /\ wLast.called /\ wLast.route = "create-project" /\ wLast.ran
    /\ \E i \in 1..Len(wLast.steps) :
          wLast.steps[i].step = Step("systemd", "backend-port", "")

\* C27: a unit installer called for public port P with P + 10000 > 65535 fails
\* before it writes or moves a unit file; otherwise the unit files it leaves
\* carry P + 10000 as the service's PORT and the proxy's target and P as the
\* socket's port, and the site file carries P + 10000 as primary and P as
\* backup upstream.
C27_BackendPortDerived ==
    C27_InstallerRan =>
        IF wLast.port + 10000 > 65535
          THEN /\ wLast.steps[Len(wLast.steps)].step = Step("systemd", "backend-port", "")
               /\ ~wLast.steps[Len(wLast.steps)].ok
               /\ \A i \in 1..Len(wLast.calls) :
                     wLast.calls[i].binary # MV_BIN \/ ~EndsWith(wLast.calls[i].args[1], ".service")
               /\ \A i \in 1..Len(wLast.steps) :
                     wLast.steps[i].step.name \notin
                        {"write-units", "mv-service", "mv-socket", "mv-proxy"}
          ELSE /\ \A file \in C27_UnitFiles(wLast.id, ".service") :
                     file = File("service", wLast.port + 10000, 0)
               /\ \A file \in C27_UnitFiles(wLast.id, "-proxy.service") :
                     file = File("proxy", wLast.port + 10000, 0)
               /\ \A file \in C27_UnitFiles(wLast.id, ".socket") :
                     file = File("socket", wLast.port, 0)
               /\ \A file \in C27_SiteFiles(wLast.id) :
                     file.a = wLast.port + 10000 /\ file.b = wLast.port
               /\ \A tls \in {"http", "https"} :
                     C27_SiteFileOf([ValidPayload(wLast.id) EXCEPT !.port = wLast.port], tls)
                        = File(tls, wLast.port + 10000, wLast.port)

\* The three unit files of a project on port 3100 are in systemd's directory.
C27_Witness ==
    /\ C27_InstallerRan
    /\ wLast.port = 3100
    /\ \A suffix \in {".service", ".socket", "-proxy.service"} :
          UnitTarget(wLast.id, suffix) \in DOMAIN wfs
    /\ wfs[UnitTarget(wLast.id, ".service")] = File("service", 13100, 0)
    /\ wfs[UnitTarget(wLast.id, ".socket")] = File("socket", 3100, 0)

\* The secret keys of the servers table.
C28_Keys == {servers[id] : id \in DOMAIN servers}

\* The text holds the key.
C28_Mentions(text, key) ==
    \E i \in 1..(Len(text) - Len(key) + 1) : SubSeq(text, i, i + Len(key) - 1) = key

\* No part of the response sent to connection c holds a stored secret key.
C28_ResponseClean(c) ==
    creating[c].pc = "responded" =>
        \A key \in C28_Keys, i \in 1..Len(creating[c].response.body) :
            ~C28_Mentions(creating[c].response.body[i], key)

C29_Complete(fs, id) ==
    /\ Exists(fs, DestinationDir(id))
    /\ fs[DestinationDir(id)] = File("artifact", 0, 0)

\* C29: a create-project run that finds a complete artifact at
\* /opt/nanoscale/sites/<id>/source leaves a complete artifact there, the
\* previous or the new one, also when its copy fails part-way.
C29_ArtifactReplacedAtomically ==
    [][\A id \in ProjectIds :
          (/\ C29_Complete(wfs, id)
           /\ wLast'.called /\ wLast'.route = "create-project" /\ wLast'.ran
           /\ wLast'.id = id)
          => C29_Complete(wfs', id)]_vars

\* How often an argument occurs in a list, and the arguments that follow it.
C30_Count(args, option) == Cardinality({i \in 1..Len(args) : args[i] = option})

C30_ValuesOf(args, option) ==
    {args[i + 1] : i \in {j \in 1..(Len(args) - 1) : args[j] = option}}

\* C30: the gate runs certbot on a list that starts with certonly only if each
\* of --webroot, -w, -d, --email, --non-interactive, --agree-tos and
\* --keep-until-expiring occurs exactly once, the -w value is
\* /opt/nanoscale/acme, every -d value is made of letters, digits, '.' and '-'
\* and holds a '.', and the --email value holds '@' and no white space.
C30_CertonlyWellFormed ==
    (/\ gateLast.called
     /\ gateLast.binary = CERTBOT_BIN
     /\ Len(gateLast.args) >= 1
     /\ gateLast.args[1] = "certonly"
     /\ gateLast.result.spawned)
    => /\ \A option \in {"--webroot", "-w", "-d", "--email", "--non-interactive",
                         "--agree-tos", "--keep-until-expiring"} :
             C30_Count(gateLast.args, option) = 1
       /\ C30_ValuesOf(gateLast.args, "-w") = {"/opt/nanoscale/acme"}
       /\ \A domain \in C30_ValuesOf(gateLast.args, "-d") :
             /\ Contains(domain, ".")
             /\ \A i \in 1..Len(domain) :
                   IsAsciiAlphanumeric(Char(domain, i)) \/ Char(domain, i) \in {".", "-"}
       /\ \A email \in C30_ValuesOf(gateLast.args, "--email") :
             /\ Contains(email, "@")
             /\ \A i \in 1..Len(email) : Char(email, i) \notin {" ", "\t", "\n", "\r"}

\* The extension of a path, in lower case.
C31_Ext(path) ==
    IF HasConfExtension(path) THEN "conf" ELSE Extension(path)

\* C31: the gate runs a move only if the source is under
\* /opt/nanoscale/tmp/nanoscale- with extension service, socket or conf, the
\* destination is under /etc/systemd/system/ or one of nginx's two site
\* directories, and both have the same extension.
C31_MoveExtensionsMatch ==
    (/\ gateLast.called
     /\ gateLast.binary = MV_BIN
     /\ gateLast.result.spawned)
    => /\ Len(gateLast.args) = 2
       /\ StartsWith(gateLast.args[1], "/opt/nanoscale/tmp/nanoscale-")
       /\ C31_Ext(gateLast.args[1]) \in {"service", "socket", "conf"}
       /\ \/ StartsWith(gateLast.args[2], "/etc/systemd/system/")
          \/ StartsWith(gateLast.args[2], "/etc/nginx/sites-available/")
          \/ StartsWith(gateLast.args[2], "/etc/nginx/sites-enabled/")
       /\ C31_Ext(gateLast.args[2]) = C31_Ext(gateLast.args[1])

\* The tasks whose consume_valid_token call for the value returned true and
\* that still hold the result.
C32_Winners(v) ==
    {p \in Callers : /\ pending.of[p].pc = "returned"
                     /\ pending.of[p].op = "consume"
                     /\ pending.of[p].token = v
                     /\ pending.of[p].result}

\* C32: of the consume_valid_token calls for one token value that tasks run
\* concurrently, interleaved with generate_token calls and prunes, at most one
\* returns true.
C32_AtMostOneConcurrentConsume ==
    \A v \in TokenValues :
        /\ Cardinality(C32_Winners(v)) <= 1
        /\ consumeCount[v] <= 1
        /\ C32_Winners(v) # {} => consumeCount[v] = 1

\* Two tasks consumed the same value at the same time, one got true and the
\* other false, while a third task is inside generate_token.
C32_Witness ==
    \E p, q, r \in Callers :
        /\ p \in C32_Winners("tokA")
        /\ pending.of[q].pc = "returned" /\ pending.of[q].op = "consume"
        /\ pending.of[q].token = "tokA" /\ ~pending.of[q].result
        /\ pending.of[r].pc = "locked" /\ pending.of[r].op = "generate"

\* The request of connection c inserted its row and has ended with an error.
C33_ErrorAfterInsert(c) ==
    /\ creating[c].pc \in {"done", "responded"}
    /\ creating[c].inserted
    /\ creating[c].status # "ok"

\* C33 (as claimed): whenever create_project returns an error after it
\* inserted the row, no row with the id generated for that request is left
\* in the projects table.
C33_NoRowAfterError ==
    \A c \in Connections :
        C33_ErrorAfterInsert(c) => ~\E r \in projects : r.id = creating[c].id


\* The redeploy that was handled sent create-project after a teardown that
\* succeeded, and the create-project step failed.
C34_CreateStepFailed ==
    /\ managing.pc = "done"
    /\ managing.op = "redeploy"
    /\ Len(managing.calls) = 2
    /\ managing.calls[2].route = "create-project"
    /\ ~managing.calls[2].ok

\* C34: a redeploy leaves the projects table as it was, whether it succeeds or
\* fails; after a redeploy whose create-project step failed the row of the
\* project is still in the table when the redeploy returns, while the worker's
\* teardown of the id has succeeded and the worker neither runs nor monitors
\* the service of the id.
C34_RedeployKeepsRow ==
    [][(managing.pc = "idle" /\ managing'.pc = "done" /\ managing'.op = "redeploy") =>
         /\ projects' = projects
         /\ C34_CreateStepFailed' =>
               /\ \E row \in projects' : row.id = managing'.id
               /\ managing'.calls[1].route = "delete-project"
               /\ managing'.calls[1].ok
               /\ UnitName(managing'.id) \notin wactive'
               /\ \A i \in 1..Len(monitored') :
                     monitored'[i].service_name # UnitName(managing'.id)]_vars

\* A redeploy whose teardown succeeded and whose create-project step failed,
\* with the row of the project still in the table.
C34_Witness ==
    /\ C34_CreateStepFailed
    /\ managing.status = "bad_gateway"
    /\ managing.calls[1].ok
    /\ \E row \in projects : row.id = managing.id /\ row.port = BASE_PROJECT_PORT


C36_TornDown(id) ==
    /\ wLast.called
    /\ wLast.route = "delete-project"
    /\ wLast.id = id
    /\ wLast.status = "no_content"

C37_ValidationRejected ==
    /\ wLast.called
    /\ wLast.route = "create-project"
    /\ wLast.ran
    /\ wLast.status = "bad_request"
    /\ \/ wLast.err \in {"repo-url", "branch"}
       \/ wLast.quiet /\ wLast.err \in {"install", "build", "run-command"}

\* C37 (as claimed): a create-project request that the worker rejects for an
\* input-validation reason is rejected before any side effect: the host is
\* unchanged (no directory, user, unit or site file created or removed), the
\* gate was not called and no git, install or build command was run.
C37_RejectedBeforeSideEffects ==
    C37_ValidationRejected =>
        /\ ~wLast.changed
        /\ wLast.calls = << >>
        /\ \A i \in 1..Len(wLast.steps) :
              wLast.steps[i].step.name \notin {"mkdir", "git-clone", "git-checkout"}


\* The scale-to-zero projects of the list the last tick read.
C38_Watched == SelectSeq(monLast.list, LAMBDA project : project.scale_to_zero)

\* The entry of the service in the log of the last tick, if it has one.
C38_Entries(name) ==
    {i \in 1..Len(monLast.log) : monLast.log[i].service_name = name}

C38_StopIssued(name) ==
    \E i \in C38_Entries(name) : monLast.log[i].stopCalled

\* The service is not one that stays active with an unchanged socket counter
\* and readable telemetry under scale-to-zero.
C38_Disturbed(name) ==
    \/ ~\E i \in 1..Len(monitored) :
          monitored[i].service_name = name /\ monitored[i].scale_to_zero
    \/ ~svc[name].active
    \/ svc[name].nconnections # 0
    \/ \E i \in C38_Entries(name) : ~monLast.log[i].readable

\* C38: a failed check or a failed stop for one monitored service does not end
\* the tick: every scale-to-zero service of the list is checked at every tick,
\* in the order of the list; and, the interval firing for as long as it can, a
\* scale-to-zero service that stays active with an unchanged socket counter
\* and readable telemetry is eventually issued a stop.
C38_LoopSurvivesFailures ==
    /\ [](monLast.ticked =>
            /\ Len(monLast.log) = Len(C38_Watched)
            /\ \A i \in 1..Len(monLast.log) :
                  monLast.log[i].service_name = C38_Watched[i].service_name)
    /\ \A name \in MonitoredUnits : <>(C38_StopIssued(name) \/ C38_Disturbed(name))

\* A tick at which the check or the stop of the first service failed and the
\* second service, idle for longer than the threshold, was stopped.
C38_Witness ==
    /\ monLast.ticked
    /\ Len(monLast.log) = 2
    /\ \/ monLast.log[1].result = "err"
       \/ monLast.log[1].stopCalled /\ ~monLast.log[1].stopOk
    /\ monLast.log[2].stopCalled
    /\ monLast.log[2].stopOk
    /\ ~svc[monLast.log[2].service_name].active

\* C39: for every X-Cluster-Timestamp that parses as an i64, values near the
\* minimum of the range included, validate_timestamp computes the mathematical
\* difference now - timestamp, so a request whose timestamp is more than 30
\* seconds in the past is answered unauthorized.
C39_StaleTimestampRejected ==
    (/\ sigLast.called
     /\ ClusterHeaders \subseteq sigLast.req.headers
     /\ ParseI64(sigLast.req.timestamp).ok
     /\ sigLast.at - ParseI64(sigLast.req.timestamp).value > MAX_TIMESTAMP_AGE_SECONDS)
    => sigLast.outcome = "unauthorized"

\* The value v was returned by generate_token, no consume_valid_token call has
\* returned true for it, and its 600 seconds have not passed.
C40_Unconsumed(v) ==
    /\ v \in DOMAIN generated
    /\ consumeCount[v] = 0
    /\ now < generated[v] + TOKEN_TTL_SECONDS

\* C40: a token returned by generate_token and not yet consumed stays in the
\* store until its expiry, whatever generate and consume calls on other values
\* and whatever prunes happen, and the first consume_valid_token of it before
\* the 600 seconds have passed returns true.
C40_UnexpiredTokenSurvives ==
    [][\A v \in TokenValues :
          C40_Unconsumed(v) =>
              /\ v \in DOMAIN tokens
              /\ tokens[v] = generated[v] + TOKEN_TTL_SECONDS
              /\ (lastConsume' # lastConsume /\ lastConsume'.token = v)
                    => lastConsume'.result]_vars

\* A token was consumed successfully in the last second of its lifetime, after
\* the prune of that very call removed another token, generated earlier and
\* never consumed, that had expired.
C40_Witness ==
    \E v, w \in TokenValues :
        /\ v # w
        /\ lastConsume.called /\ lastConsume.result /\ lastConsume.token = v
        /\ lastConsume.at = generated[v] + TOKEN_TTL_SECONDS - 1
        /\ w \in DOMAIN generated
        /\ generated[w] < generated[v]
        /\ generated[w] + TOKEN_TTL_SECONDS <= lastConsume.at
        /\ consumeCount[w] = 0
        /\ w \notin DOMAIN tokens

====
